---- MODULE Spec2Model ----
(***************************************************************************)
(* vedro-unittest: the loader that turns unittest test cases into Vedro    *)
(* scenarios (UnitTestLoader), the result collector (TestResult) and the   *)
(* plugin's event handlers (VedroUnitTestPlugin).                          *)
(*                                                                         *)
(* A Python module is a record: its module-level hook attributes and its   *)
(* test classes in the order dir(module) lists them.  A class names its    *)
(* base (0 is unittest.TestCase), the class-level hooks and test methods   *)
(* it defines itself, and the attributes the unittest decorators set.      *)
(***************************************************************************)
EXTENDS Integers, Sequences, FiniteSets, TLC

(***************************************************************************)
(* Input domains.                                                          *)
(***************************************************************************)
ClassNames == <<"A", "A_test_a">>
MethodNames == <<"test_a", "test_b_c">>
MethodReasons == {"", "m"}
ClassReasons == {"c"}
ModuleName == "scenario"

(***************************************************************************)
(* Strings that are taken apart or put together character by character are *)
(* sequences of one-character strings; Chars gives the characters of the   *)
(* names above.  A literal part of a formatted string is one element.      *)
(***************************************************************************)
Chars ==
    ("A" :> <<"A">>)
    @@ ("A_test_a" :> <<"A", "_", "t", "e", "s", "t", "_", "a">>)
    @@ ("test_a" :> <<"t", "e", "s", "t", "_", "a">>)
    @@ ("test_b_c" :> <<"t", "e", "s", "t", "_", "b", "_", "c">>)
    @@ ("scenario" :> <<"s", "c", "e", "n", "a", "r", "i", "o">>)

\* A replacement that stops after the first occurrence.
ReplaceFirst(str, old, new) ==
    IF \E k \in 1..Len(str) : str[k] = old
    THEN LET first == CHOOSE k \in 1..Len(str) :
                          str[k] = old /\ \A j \in 1..(k - 1) : str[j] # old
         IN  [k \in 1..Len(str) |-> IF k = first THEN new ELSE str[k]]
    ELSE str

\* str.replace(old, new) for one-character old and new
RECURSIVE Replace(_, _, _)
Replace(str, old, new) ==
    IF str = << >> THEN << >>
    ELSE <<IF Head(str) = old THEN new ELSE Head(str)>>
            \o Replace(Tail(str), old, new)

(***************************************************************************)
(* Python values.  Nil is niltype.Nil / a missing attribute; Some(v) is a  *)
(* present attribute of value v.                                           *)
(***************************************************************************)
Nil == << >>
Some(v) == <<v>>

SKIP == "__unittest_skip__"
SKIP_WHY == "__unittest_skip_why__"
EXPECTING_FAILURE == "__unittest_expecting_failure__"

\* The attributes unittest's decorators leave on a function or a class.
Attrs(skip, why, expecting) ==
    (SKIP :> skip) @@ (SKIP_WHY :> why) @@ (EXPECTING_FAILURE :> expecting)

NoAttrs == Attrs(Nil, Nil, Nil)
\* @unittest.skip(reason), skipIf(True, reason), skipUnless(False, reason)
SkipAttrs(reason) == Attrs(Some(TRUE), Some(reason), Nil)
\* @unittest.expectedFailure
ExpectedFailureAttrs == Attrs(Nil, Nil, Some(TRUE))

\* bool(getattr(module, name, None)) for a module attribute that is absent,
\* bound to None, or bound to a function.
ModuleAttrValues == {"absent", "None", "function"}
Truthy(v) == v = "function"

(***************************************************************************)
(* Classes and modules.                                                    *)
(***************************************************************************)
TestCaseBase == 0

MethodNameSet == {MethodNames[k] : k \in 1..Len(MethodNames)}

\* The chain getattr follows from class i up to unittest.TestCase.
RECURSIVE Mro(_, _)
Mro(classes, i) ==
    IF i = TestCaseBase THEN <<TestCaseBase>>
    ELSE <<i>> \o Mro(classes, classes[i].base)

\* Whether class k (of the chain) defines the class-level hook itself;
\* unittest.TestCase defines both setUpClass and tearDownClass.
DefinesHook(classes, k, hook) ==
    IF k = TestCaseBase THEN hook \in {"setUpClass", "tearDownClass"}
    ELSE IF hook = "setUpClass" THEN classes[k].setUpClass
    ELSE IF hook = "tearDownClass" THEN classes[k].tearDownClass
    ELSE FALSE

\* inspect.getattr_static(obj, hook, None) for a test of class i (or for
\* unittest.TestCase, i = 0): the object found first along the chain, named
\* by the class that defines it; Nil is None.
GetattrStatic(classes, i, hook) ==
    LET mro == Mro(classes, i)
        hits == {p \in 1..Len(mro) : DefinesHook(classes, mro[p], hook)}
    IN  IF hits = {} THEN Nil
        ELSE Some(mro[CHOOSE p \in hits : \A q \in hits : p <= q])

\* getattr(test, name, Nil) for a class attribute of a test of class i.
ClassAttr(classes, i, name) ==
    LET mro == Mro(classes, i)
        hits == {p \in 1..Len(mro) :
                    /\ mro[p] # TestCaseBase
                    /\ classes[mro[p]].attrs[name] # Nil}
    IN  IF hits = {} THEN Nil
        ELSE classes[mro[CHOOSE p \in hits : \A q \in hits : p <= q]].attrs[name]

\* The test methods dir(cls) shows on class i: its own and the inherited.
VisibleMethods(classes, i) ==
    LET mro == Mro(classes, i)
    IN  UNION {IF mro[p] = TestCaseBase THEN {} ELSE DOMAIN classes[mro[p]].methods
               : p \in 1..Len(mro)}

\* The class whose definition of method name a test of class i runs.
MethodOwner(classes, i, name) ==
    LET mro == Mro(classes, i)
        hits == {p \in 1..Len(mro) :
                    /\ mro[p] # TestCaseBase
                    /\ name \in DOMAIN classes[mro[p]].methods}
    IN  mro[CHOOSE p \in hits : \A q \in hits : p <= q]

\* getattr(getattr(test, test._testMethodName), name, Nil)
MethodAttr(classes, test, name) ==
    classes[MethodOwner(classes, test.cls, test.method)].methods[test.method][name]

(***************************************************************************)
(* unittest.TestLoader: one suite per TestCase subclass of the module, in  *)
(* dir(module) order, one test per visible test method name, sorted.       *)
(***************************************************************************)
LoadTestsFromTestCase(classes, i) ==
    LET names == SelectSeq(MethodNames, LAMBDA n : n \in VisibleMethods(classes, i))
    IN  [k \in 1..Len(names) |-> [cls |-> i, method |-> names[k]]]

LoadTestsFromModule(m) ==
    [i \in 1..Len(m.classes) |-> LoadTestsFromTestCase(m.classes, i)]

RECURSIVE Flatten(_)
Flatten(suites) ==
    IF suites = << >> THEN << >> ELSE Head(suites) \o Flatten(Tail(suites))

(***************************************************************************)
(* UnitTestLoader                                                          *)
(***************************************************************************)
\* A wrapped test: one TestCase (isCase) or a TestSuite, with its tests in
\* running order (_extract_tests_from_suite's flattening).
Case(test) == [isCase |-> TRUE, tests |-> <<test>>]
Suite(tests) == [isCase |-> FALSE, tests |-> tests]

HasModuleSetupOrTeardownMut(m) ==
    Truthy(m.setUpModule)

HasModuleSetupOrTeardown(m) ==
    IF Truthy(m.setUpModule) THEN TRUE
    ELSE IF Truthy(m.tearDownModule) THEN TRUE
    ELSE FALSE

IsMethodOverriddenMut(classes, method_name, child, parent) ==
    IF child = TestCaseBase THEN FALSE
    ELSE IF method_name = "setUpClass" THEN classes[child].setUpClass
    ELSE classes[child].tearDownClass

IsMethodOverridden(classes, method_name, child, parent) ==
    LET child_method == GetattrStatic(classes, child, method_name)
        parent_method == GetattrStatic(classes, parent, method_name)
    IN  IF child_method = Nil \/ parent_method = Nil THEN FALSE
        ELSE child_method # parent_method

\* A check that looks for setUpClass only.
HasClassSetupOrTeardownSetUpOnly(classes, test_case) ==
    IsMethodOverridden(classes, "setUpClass", test_case.cls, TestCaseBase)

\* A check that finds a class-level hook on every class.
HasClassSetupOrTeardownAlways(classes, test_case) == TRUE

HasClassSetupOrTeardown(classes, test_case) ==
    \/ IsMethodOverridden(classes, "setUpClass", test_case.cls, TestCaseBase)
    \/ IsMethodOverridden(classes, "tearDownClass", test_case.cls, TestCaseBase)

GetTestAttrMut(classes, test, name, default) ==
    LET test_value == ClassAttr(classes, test.cls, name)
        test_method_value == MethodAttr(classes, test, name)
    IN  IF test_value # Nil THEN test_value[1]
        ELSE IF test_method_value # Nil THEN test_method_value[1]
        ELSE default

GetTestAttr(classes, test, name, default) ==
    LET test_value == ClassAttr(classes, test.cls, name)
        test_method_value == MethodAttr(classes, test, name)
    IN  IF test_method_value # Nil THEN test_method_value[1]
        ELSE IF test_value # Nil THEN test_value[1]
        ELSE default

IsTestSkippedMut(classes, t) ==
    IF t.isCase
    THEN [is_skipped |-> GetTestAttr(classes, t.tests[1], SKIP, FALSE),
          skip_reason |-> GetTestAttr(classes, t.tests[1], SKIP_WHY, "")]
    ELSE IF t.tests = << >>
    THEN [is_skipped |-> FALSE, skip_reason |-> ""]
    ELSE IF \A k \in 1..Len(t.tests) : ~GetTestAttr(classes, t.tests[k], SKIP, FALSE)
    THEN [is_skipped |-> FALSE, skip_reason |-> ""]
    ELSE [is_skipped |-> TRUE, skip_reason |-> "All tests are skipped"]

IsTestSkipped(classes, t) ==
    IF t.isCase
    THEN [is_skipped |-> GetTestAttr(classes, t.tests[1], SKIP, FALSE),
          skip_reason |-> GetTestAttr(classes, t.tests[1], SKIP_WHY, "")]
    ELSE IF t.tests = << >>
    THEN [is_skipped |-> FALSE, skip_reason |-> ""]
    ELSE IF \E k \in 1..Len(t.tests) : ~GetTestAttr(classes, t.tests[k], SKIP, FALSE)
    THEN [is_skipped |-> FALSE, skip_reason |-> ""]
    ELSE [is_skipped |-> TRUE, skip_reason |-> "All tests are skipped"]

\* type(name, (Scenario,), {...}), then skip(skip_reason)(scenario) when the
\* test is skipped.  granularity is not an attribute of the scenario type:
\* it records which branch of _collect_scenarios built it.
BuildVedroScenario(classes, t, granularity, name, subject) ==
    LET s == IsTestSkipped(classes, t)
    IN  [name |-> name,
         subject |-> subject,
         granularity |-> granularity,
         test |-> t,
         skipped |-> s.is_skipped,
         skip_reason |-> IF s.is_skipped THEN Some(s.skip_reason) ELSE Nil,
         expected_failure |-> Nil,
         unexpected_success |-> Nil]

\* f"All tests in module '{module.__name__}'"
ModuleSubject(module_name) ==
    <<"All tests in module '">> \o Chars[module_name] \o <<"'">>

\* f"All tests in class '{class_name}'"
ClassSubject(class_name) ==
    <<"All tests in class '">> \o Chars[class_name] \o <<"'">>

\* f"[{class_name}] {method_name.replace('_', ' ')}"
MethodSubject(class_name, method_name) ==
    <<"[">> \o Chars[class_name] \o <<"]", " ">>
        \o Replace(Chars[method_name], "_", " ")

ScenariosOfSuiteMut(classes, suite) ==
    IF Len(suite) = 0 THEN << >>
    ELSE LET first_test == suite[1]
             class_name == ClassNames[first_test.cls]
         IN  IF HasClassSetupOrTeardown(classes, first_test)
             THEN <<BuildVedroScenario(classes, Suite(suite), "per-class",
                                       "Scenario_" \o class_name,
                                       ClassSubject(class_name))>>
             ELSE [k \in 1..Len(SelectSeq(suite, LAMBDA t :
                                   t.method \in DOMAIN classes[t.cls].methods)) |->
                     BuildVedroScenario(classes,
                        Case(SelectSeq(suite, LAMBDA t :
                                t.method \in DOMAIN classes[t.cls].methods)[k]),
                        "per-method",
                        "Scenario_" \o class_name \o "_" \o
                        SelectSeq(suite, LAMBDA t :
                                t.method \in DOMAIN classes[t.cls].methods)[k].method,
                        MethodSubject(class_name,
                            SelectSeq(suite, LAMBDA t :
                                t.method \in DOMAIN classes[t.cls].methods)[k].method))]

ScenariosOfSuite(classes, suite) ==
    IF Len(suite) = 0 THEN << >>
    ELSE LET first_test == suite[1]
             class_name == ClassNames[first_test.cls]
         IN  IF HasClassSetupOrTeardown(classes, first_test)
             THEN <<BuildVedroScenario(classes, Suite(suite), "per-class",
                                       "Scenario_" \o class_name,
                                       ClassSubject(class_name))>>
             ELSE [k \in 1..Len(suite) |->
                     BuildVedroScenario(classes, Case(suite[k]), "per-method",
                        "Scenario_" \o ClassNames[suite[k].cls]
                                    \o "_" \o suite[k].method,
                        MethodSubject(ClassNames[suite[k].cls], suite[k].method))]

RECURSIVE CollectLoop(_, _)
CollectLoop(classes, test_suite) ==
    IF test_suite = << >> THEN << >>
    ELSE ScenariosOfSuite(classes, Head(test_suite))
            \o CollectLoop(classes, Tail(test_suite))

CollectScenarios(m) ==
    LET test_suite == LoadTestsFromModule(m)
    IN  IF HasModuleSetupOrTeardown(m)
        THEN <<BuildVedroScenario(m.classes, Suite(Flatten(test_suite)),
                                  "per-module", "Scenario_UnitTestSuite",
                                  ModuleSubject(m.name))>>
        ELSE CollectLoop(m.classes, test_suite)

(***************************************************************************)
(* The modules a path may hold.                                            *)
(***************************************************************************)
ClassSet(i, methodAttrs, classAttrs, asyncs) ==
    [name : {ClassNames[i]},
     base : 0..(i - 1),
     isAsync : asyncs,
     setUpClass : BOOLEAN,
     tearDownClass : BOOLEAN,
     attrs : classAttrs,
     methods : UNION {[S -> methodAttrs] : S \in SUBSET MethodNameSet}]

ClassSeqs(methodAttrs, classAttrs, asyncs) ==
    {<< >>}
    \cup {<<a>> : a \in ClassSet(1, methodAttrs, classAttrs, asyncs)}
    \cup {<<a, b>> : a \in ClassSet(1, methodAttrs, classAttrs, asyncs),
                     b \in ClassSet(2, methodAttrs, classAttrs, asyncs)}

ModuleSet(setUps, tearDowns, methodAttrs, classAttrs, asyncs) ==
    [name : {ModuleName},
     setUpModule : setUps,
     tearDownModule : tearDowns,
     classes : ClassSeqs(methodAttrs, classAttrs, asyncs)]

\* Modules for the build-time decisions: every hook and skip marker (the
\* loader does not look at the kind of TestCase when it builds scenarios).
LoadModules ==
    ModuleSet(ModuleAttrValues, {"absent", "function"},
              {NoAttrs} \cup {SkipAttrs(r) : r \in MethodReasons},
              {NoAttrs} \cup {SkipAttrs(r) : r \in ClassReasons},
              {FALSE})

NoModule ==
    [name |-> "", setUpModule |-> "absent", tearDownModule |-> "absent",
     classes |-> << >>]

(***************************************************************************)
(* sys.modules maps a name to a module object.  A module object is the     *)
(* module with the identity that tells the object the module loader has    *)
(* returned (1) from an object registered before the call of load (0).     *)
(***************************************************************************)
EmptyRegistry == [n \in {} |-> NoModule]

ModuleObject(m) == [id |-> 1, module |-> m]

PreviousObject == [id |-> 0, module |-> [NoModule EXCEPT !.name = ModuleName]]

\* A mapping that leaves the registry as it is.
RegisterNothing(registry, name, object) == registry

\* sys.modules[name] = object
Register(registry, name, object) ==
    [n \in (DOMAIN registry) \cup {name} |->
        IF n = name THEN object ELSE registry[n]]

(***************************************************************************)
(* TestCaseLoader, the earlier loader of the package.  It differs from     *)
(* UnitTestLoader in load's outcome for a module with module-level hooks:  *)
(* it asks for the first test of the module's suite while it builds the    *)
(* scenario.  LegacyGetFirstTest is Nil where next(iter(suite)) raises     *)
(* StopIteration (which leaves the coroutine load as a RuntimeError).      *)
(***************************************************************************)
LegacyGetFirstTest(test_suite) ==
    IF test_suite = << >> THEN Nil
    ELSE IF Head(test_suite) = << >> THEN Nil
    ELSE Some(Head(test_suite)[1])

LegacyScenario(classes, t, granularity, name, subject, skipped, skip_reason) ==
    [name |-> name, subject |-> subject, granularity |-> granularity, test |-> t,
     skipped |-> skipped, skip_reason |-> skip_reason,
     expected_failure |-> Nil, unexpected_success |-> Nil]

LegacyScenariosOfSuite(classes, suite) ==
    IF Len(suite) = 0 THEN << >>
    ELSE IF HasClassSetupOrTeardown(classes, suite[1])
    THEN <<LegacyScenario(classes, Suite(suite), "per-class",
                          "Scenario__" \o ClassNames[suite[1].cls],
                          ClassSubject(ClassNames[suite[1].cls]), FALSE, Nil)>>
    ELSE [k \in 1..Len(suite) |->
            LET skipped == GetTestAttr(classes, suite[k], SKIP, FALSE)
            IN  LegacyScenario(classes, Case(suite[k]), "per-method",
                    "Scenario__" \o ClassNames[suite[k].cls]
                                 \o "__" \o suite[k].method,
                    MethodSubject(ClassNames[suite[k].cls], suite[k].method),
                    skipped,
                    IF skipped
                    THEN Some(GetTestAttr(classes, suite[k], SKIP_WHY, ""))
                    ELSE Nil)]

RECURSIVE LegacyCollectLoop(_, _)
LegacyCollectLoop(classes, test_suite) ==
    IF test_suite = << >> THEN << >>
    ELSE LegacyScenariosOfSuite(classes, Head(test_suite))
            \o LegacyCollectLoop(classes, Tail(test_suite))

\* What TestCaseLoader._collect_scenarios does: the exception it raises (Nil:
\* it returns) and the scenarios it returns.
LegacyCollectScenarios(m) ==
    LET test_suite == LoadTestsFromModule(m)
        first_test == LegacyGetFirstTest(test_suite)
    IN  IF HasModuleSetupOrTeardown(m)
        THEN IF first_test = Nil
             THEN [raised |-> Some([type |-> "RuntimeError", arg |-> "coroutine raised StopIteration",
                                  origin |-> "load"]),
                   scenarios |-> << >>]
             ELSE [raised |-> Nil,
                   scenarios |->
                     <<LegacyScenario(m.classes, Suite(Flatten(test_suite)),
                           "per-module",
                           "Scenario__" \o ClassNames[first_test[1].cls],
                           ModuleSubject(m.name), FALSE, Nil)>>]
        ELSE [raised |-> Nil,
              scenarios |-> LegacyCollectLoop(m.classes, test_suite)]

(***************************************************************************)
(* Exceptions.  An exception object is its type, its argument and the test *)
(* that raised it (which tells two objects of one type apart).             *)
(***************************************************************************)
Exc(type, arg, test) == [type |-> type, arg |-> arg, origin |-> test]

\* isinstance(e, Exception): SystemExit and KeyboardInterrupt derive from
\* BaseException only.
IsException(e) == e.type \notin {"SystemExit", "KeyboardInterrupt"}

\* repr(e) shows the type and the argument, not the object.
Repr(e) == <<e.type, e.arg>>

(***************************************************************************)
(* TestResult (the result collector).  Each callback calls the base class  *)
(* (whose bookkeeping the loader never reads; failfast is off, so          *)
(* shouldStop stays as it is) and appends to one of the three lists.       *)
(***************************************************************************)
NewTestResult ==
    [vedro_unittest_exceptions |-> << >>,
     vedro_unittest_expected_failures |-> << >>,
     vedro_unittest_unexpected_successes |-> << >>,
     shouldStop |-> FALSE]

\* A collector whose lists are the ones of the collector before it.
SharedTestResult(previous) == previous

\* test_result = TestResult(): __init__ gives the instance three new lists,
\* whatever collector the process created before.
TestResult(previous) == NewTestResult

Entry(test, exc) == [test |-> test, exc |-> exc]

addSuccess(r, test) == r

addError(r, test, err) ==
    [r EXCEPT !.vedro_unittest_exceptions = Append(@, Entry(test, err))]

\* A callback that keeps only its own entry.
addFailureReplacing(r, test, err) ==
    [r EXCEPT !.vedro_unittest_exceptions = <<Entry(test, err)>>]

addFailure(r, test, err) ==
    [r EXCEPT !.vedro_unittest_exceptions = Append(@, Entry(test, err))]

addSkipMut(r, test, reason) == r

addSkip(r, test, reason) ==
    [r EXCEPT !.vedro_unittest_exceptions =
                  Append(@, Entry(test, Exc("SkipTest", reason, test)))]

\* err is Nil (the subtest passed) or Some(exception).
addSubTestFailfast(r, test, subtest, err) ==
    IF err # Nil
    THEN [r EXCEPT !.vedro_unittest_exceptions = Append(@, Entry(subtest, err[1])),
                   !.shouldStop = TRUE]
    ELSE r

addSubTest(r, test, subtest, err) ==
    IF err # Nil
    THEN [r EXCEPT !.vedro_unittest_exceptions = Append(@, Entry(subtest, err[1]))]
    ELSE r

addExpectedFailure(r, test, err) ==
    [r EXCEPT !.vedro_unittest_expected_failures = Append(@, Entry(test, err))]

addUnexpectedSuccess(r, test) ==
    [r EXCEPT !.vedro_unittest_unexpected_successes =
                  Append(@, Entry(test, Exc("UnexpectedSuccessError",
                                            "Scenario passed, but expected to fail",
                                            test)))]

(***************************************************************************)
(* unittest's TestCase.run for one test, as the callback it fires.  A test *)
(* whose class or method is skip-marked is not executed.  Otherwise the    *)
(* method runs and behaves in one of these ways.                           *)
(***************************************************************************)
Behaviours == {"pass", "fail", "error", "exit", "skip"}
RuntimeSkipReason == "Intentional skip"

\* The exception a behaviour raises in the test method.
Raised(test, b) ==
    CASE b = "fail" -> Exc("AssertionError", "False is not true", test)
      [] b = "error" -> Exc("TabError", "details", test)
      [] b = "exit" -> Exc("SystemExit", "1", test)
      [] b = "skip" -> Exc("SkipTest", RuntimeSkipReason, test)

EngineSkips(classes, test) ==
    \/ ClassAttr(classes, test.cls, SKIP) = Some(TRUE)
    \/ MethodAttr(classes, test, SKIP) = Some(TRUE)

\* getattr(cls, '__unittest_skip_why__', '') or getattr(method, ..., '')
EngineSkipWhy(classes, test) ==
    LET cw == ClassAttr(classes, test.cls, SKIP_WHY)
        mw == MethodAttr(classes, test, SKIP_WHY)
    IN  IF cw # Nil /\ cw[1] # "" THEN cw[1]
        ELSE IF mw # Nil THEN mw[1] ELSE ""

ExpectingFailure(classes, test) ==
    \/ ClassAttr(classes, test.cls, EXPECTING_FAILURE) = Some(TRUE)
    \/ MethodAttr(classes, test, EXPECTING_FAILURE) = Some(TRUE)

\* The callback of one run: [cb, test, and err or reason].
EngineCallback(classes, test, b) ==
    IF EngineSkips(classes, test)
    THEN [cb |-> "addSkip", test |-> test, reason |-> EngineSkipWhy(classes, test),
          executed |-> FALSE]
    ELSE IF b = "skip"
    THEN [cb |-> "addSkip", test |-> test, reason |-> RuntimeSkipReason,
          executed |-> TRUE]
    ELSE IF ExpectingFailure(classes, test)
    THEN IF b = "pass"
         THEN [cb |-> "addUnexpectedSuccess", test |-> test, executed |-> TRUE]
         ELSE [cb |-> "addExpectedFailure", test |-> test, err |-> Raised(test, b),
               executed |-> TRUE]
    ELSE IF b = "pass"
    THEN [cb |-> "addSuccess", test |-> test, executed |-> TRUE]
    ELSE IF b = "fail"
    THEN [cb |-> "addFailure", test |-> test, err |-> Raised(test, b),
          executed |-> TRUE]
    ELSE [cb |-> "addError", test |-> test, err |-> Raised(test, b),
          executed |-> TRUE]

(***************************************************************************)
(* Subtests.  A test method may loop over `with self.subTest(i=i)`; every  *)
(* iteration behaves in one of SubBehaviours (SubTestCallback also covers  *)
(* an iteration that calls skipTest, which the runs explored here leave    *)
(* out).  The engine keeps, per test, whether a part of it has failed or   *)
(* skipped so far (outcome.success).                                       *)
(***************************************************************************)
MaxSubtests == 2
SubBehaviours == {"pass", "fail"}

\* The _SubTest object of iteration i of a test.
SubTest(test, i) == [cls |-> test.cls, method |-> test.method, sub |-> i]

\* outcome.success of the test whose callbacks so far are recs: a skip or a
\* failure that was reported clears it; a failure the test expects does not.
OutcomeSuccess(recs) ==
    \A k \in 1..Len(recs) :
        /\ recs[k].cb # "addSkip"
        /\ ~(recs[k].cb = "addSubTest" /\ recs[k].behaviour # "pass")

\* The callback of iteration i of a test that is not skip-marked, and whether
\* the iteration ends the test: a failure the test expects ends it (and is
\* reported for the test) unless an earlier part has cleared outcome.success.
SubTestCallback(classes, test, i, b, success) ==
    LET st == SubTest(test, i)
    IN  IF b = "skip"
        THEN [cb |-> "addSkip", test |-> st, reason |-> RuntimeSkipReason,
              ends |-> FALSE]
        ELSE IF b = "pass"
        THEN [cb |-> "addSubTest", test |-> st, err |-> Nil, ends |-> FALSE]
        ELSE IF ~ExpectingFailure(classes, test)
        THEN [cb |-> "addSubTest", test |-> st, err |-> Some(Raised(st, b)),
              ends |-> FALSE]
        ELSE IF success
        THEN [cb |-> "addExpectedFailure", test |-> test, err |-> Raised(st, b),
              ends |-> TRUE]
        ELSE [cb |-> "none", test |-> st, ends |-> FALSE]

\* The callback at the end of a test: as EngineCallback, but once
\* outcome.success is cleared the engine reports neither a success, nor an
\* expected failure, nor an unexpected success.
TestCallback(classes, test, b, success) ==
    IF EngineSkips(classes, test) \/ success \/ b = "skip"
    THEN EngineCallback(classes, test, b)
    ELSE IF ExpectingFailure(classes, test) \/ b = "pass"
    THEN [cb |-> "none", test |-> test, executed |-> TRUE]
    ELSE EngineCallback(classes, test, b)

\* The engine calling the collector.
Fire(r, c) ==
    CASE c.cb = "addSuccess" -> addSuccess(r, c.test)
      [] c.cb = "none" -> r
      [] c.cb = "addSubTest" -> addSubTest(r, [cls |-> c.test.cls,
                                               method |-> c.test.method],
                                           c.test, c.err)
      [] c.cb = "addError" -> addError(r, c.test, c.err)
      [] c.cb = "addFailure" -> addFailure(r, c.test, c.err)
      [] c.cb = "addSkip" -> addSkip(r, c.test, c.reason)
      [] c.cb = "addExpectedFailure" -> addExpectedFailure(r, c.test, c.err)
      [] c.cb = "addUnexpectedSuccess" -> addUnexpectedSuccess(r, c.test)

(***************************************************************************)
(* IsolatedAsyncioTestCase.  _run_test submits the run of a wrapped        *)
(* IsolatedAsyncioTestCase to a ThreadPoolExecutor and waits for its       *)
(* result; any other wrapped test, a TestSuite of whatever tests included, *)
(* runs on the thread that called do.  That thread is the one of the       *)
(* host's event loop (the host's runner awaits its scenarios), so that an  *)
(* IsolatedAsyncioTestCase run on it cannot start a loop of its own: its   *)
(* asyncSetUp fails, which the engine reports, and the closing of its      *)
(* asyncio runner raises out of test.run.                                  *)
(***************************************************************************)
\* isinstance(test, IsolatedAsyncioTestCase), for a TestCase instance
IsolatedAsyncio(classes, test) ==
    LET mro == Mro(classes, test.cls)
    IN  \E k \in 1..Len(mro) : mro[k] # TestCaseBase /\ classes[mro[k]].isAsync

\* isinstance(test, IsolatedAsyncioTestCase), for the wrapped test t
SubmitsToExecutor(classes, t) ==
    t.isCase /\ IsolatedAsyncio(classes, t.tests[1])

\* What the engine reports for asyncSetUp on the thread of a running loop.
RunnerRunError(test) ==
    Exc("RuntimeError", "Runner.run() cannot be called from a running event loop", test)

\* What the closing of the asyncio runner raises on that thread.
LoopRunningError(test) ==
    Exc("RuntimeError", "Cannot run the event loop while another loop is running", test)

\* An interrupt raised while a test runs: the engine re-raises it.
KeyboardInterrupt(test) == Exc("KeyboardInterrupt", "", test)

\* A future whose result drops what the submitted call raised.
FutureResultSwallowed(escaped) == Nil

\* executor.submit(test.run, test_result).result(): without a timeout, it
\* waits for the call to end and raises what the call raised (Nil: returns).
FutureResult(escaped) == escaped

\* The end of `with ThreadPoolExecutor() as executor`: shutdown(wait=True)
\* joins the worker thread, if there is one.
ExecutorExit(w) == IF w = "running" THEN "joined" ELSE w

(***************************************************************************)
(* UnitTestLoader._process_test_result                                     *)
(***************************************************************************)
Excs(entries) == [k \in 1..Len(entries) |-> entries[k].exc]

\* ExceptionGroup(message, exceptions): the constructor refuses members that
\* are not Exception instances with a TypeError.
ExceptionGroup(message, exceptions) ==
    IF \A k \in 1..Len(exceptions) : IsException(exceptions[k])
    THEN [type |-> "ExceptionGroup", arg |-> message, exceptions |-> exceptions]
    ELSE [type |-> "TypeError",
          arg |-> "Cannot nest BaseExceptions in an ExceptionGroup",
          exceptions |-> << >>]

\* What the call does: the exception it raises (Nil: it returns) and the
\* scenario type with the attributes it has set.
ProcessTestResultElif(scenario, r, as_exc_group) ==
    IF r.vedro_unittest_exceptions # << >>
    THEN IF as_exc_group /\ Len(r.vedro_unittest_exceptions) > 1
         THEN [raised |-> Some(ExceptionGroup("Multiple Unittest Exceptions",
                                              Excs(r.vedro_unittest_exceptions))),
               scenario |-> scenario]
         ELSE [raised |-> Some(r.vedro_unittest_exceptions[1].exc),
               scenario |-> scenario]
    ELSE IF r.vedro_unittest_expected_failures # << >>
    THEN [raised |-> Nil,
          scenario |-> [scenario EXCEPT !.expected_failure =
                            Some(r.vedro_unittest_expected_failures[1].exc)]]
    ELSE IF r.vedro_unittest_unexpected_successes # << >>
    THEN [raised |-> Some(r.vedro_unittest_unexpected_successes[1].exc),
          scenario |-> [scenario EXCEPT !.unexpected_success =
                          Some(r.vedro_unittest_unexpected_successes[1].exc)]]
    ELSE [raised |-> Nil, scenario |-> scenario]

\* An outcome translation that starts from a scenario type without the
\* attributes of earlier invocations.
ProcessTestResultReset(scenario, r, as_exc_group) ==
    LET clean == [scenario EXCEPT !.expected_failure = Nil, !.unexpected_success = Nil]
    IN  IF r.vedro_unittest_exceptions # << >>
        THEN [raised |-> Some(r.vedro_unittest_exceptions[1].exc), scenario |-> clean]
        ELSE LET withEF == IF r.vedro_unittest_expected_failures # << >>
                           THEN [clean EXCEPT !.expected_failure =
                                    Some(r.vedro_unittest_expected_failures[1].exc)]
                           ELSE clean
             IN  IF r.vedro_unittest_unexpected_successes # << >>
                 THEN [raised |-> Some(r.vedro_unittest_unexpected_successes[1].exc),
                       scenario |-> [withEF EXCEPT !.unexpected_success =
                                       Some(r.vedro_unittest_unexpected_successes[1].exc)]]
                 ELSE [raised |-> Nil, scenario |-> withEF]

ProcessTestResult(scenario, r, as_exc_group) ==
    IF r.vedro_unittest_exceptions # << >>
    THEN IF as_exc_group /\ Len(r.vedro_unittest_exceptions) > 1
         THEN [raised |-> Some(ExceptionGroup("Multiple Unittest Exceptions",
                                              Excs(r.vedro_unittest_exceptions))),
               scenario |-> scenario]
         ELSE [raised |-> Some(r.vedro_unittest_exceptions[1].exc),
               scenario |-> scenario]
    ELSE LET withEF == IF r.vedro_unittest_expected_failures # << >>
                       THEN [scenario EXCEPT !.expected_failure =
                                Some(r.vedro_unittest_expected_failures[1].exc)]
                       ELSE scenario
         IN  IF r.vedro_unittest_unexpected_successes # << >>
             THEN [raised |-> Some(r.vedro_unittest_unexpected_successes[1].exc),
                   scenario |-> [withEF EXCEPT !.unexpected_success =
                                   Some(r.vedro_unittest_unexpected_successes[1].exc)]]
             ELSE [raised |-> Nil, scenario |-> withEF]

(***************************************************************************)
(* VedroUnitTestPlugin: the notes its handlers add to a scenario result.   *)
(***************************************************************************)
GetExpectedFailure(scenario) == scenario.expected_failure
GetUnexpectedSuccess(scenario) == scenario.unexpected_success

OnScenarioPassedMut(scenario, extra_details) == extra_details

OnScenarioPassed(scenario, extra_details) ==
    LET expected_failure == GetExpectedFailure(scenario)
    IN  IF expected_failure # Nil
        THEN Append(extra_details,
                    [note |-> "Expected Failure", repr |-> Repr(expected_failure[1])])
        ELSE extra_details

\* A handler that adds its note to every failed scenario.
OnScenarioFailedAlways(scenario, extra_details) ==
    Append(extra_details, [note |-> "Unexpected Success", repr |-> << >>])

OnScenarioFailed(scenario, extra_details) ==
    LET unexpected_success == GetUnexpectedSuccess(scenario)
    IN  IF unexpected_success # Nil
        THEN Append(extra_details, [note |-> "Unexpected Success", repr |-> << >>])
        ELSE extra_details

\* Modules for running scenario bodies: one class, a TestCase or an
\* IsolatedAsyncioTestCase, with or without hooks, its methods plain,
\* skip-marked or expected to fail.
RunModules ==
    {m \in ModuleSet({"absent", "function"}, {"absent"},
                     {NoAttrs, SkipAttrs("m"), ExpectedFailureAttrs},
                     {NoAttrs, SkipAttrs("c")}, BOOLEAN) :
        /\ Len(m.classes) = 1
        /\ ~m.classes[1].tearDownClass}

(***************************************************************************)
(* State.                                                                  *)
(***************************************************************************)
VARIABLES
    pc,          \* "unloaded", then where the host is with the loaded module
    module,      \* the module the module loader returned
    sysModules,  \* sys.modules: the module object registered under each name
    loader,      \* the loader class whose load was called ("none": not yet)
    load_error,  \* the exception load raised (Nil: it returned)
    scenarios,   \* the scenario types load returned, with their attributes
    raise_as_exc_group,  \* sys.version_info >= (3, 11)
    cur,         \* the scenario whose body the host is running (0: none)
    worker,      \* the executor thread of the body: none, running, joined
    next,        \* the position in the wrapped suite of the test to run next
    test_result, \* the TestResult of the running body
    subtests,    \* the iterations of the subTest loop of the body's tests
    sub,         \* the iterations the running test has executed
    fired,       \* the callbacks the engine has fired in the running body
    effects,     \* the calls of setUp, test methods and tearDown in that body
    outcome,     \* how the body ended: Nil while it runs, then <<raised>>
    report,      \* what the host reports for the run: passed, failed, skipped
    extra_details, \* the extra details of the run's scenario result
    config_loaded, \* the ConfigLoadedEvents the dispatcher has fired
    global_config, \* the plugin's _global_config (Nil: not yet set)
    config_calls,  \* the calls made on the configuration, in order
    providers,     \* what the host's scenario collector has registered
    show_internal_calls,  \* the plugin's _show_internal_calls (config.show_internal_calls)
    tb_filter,   \* the plugin's _tb_filter (Nil: None)
    exc_raised,  \* the ExceptionRaised events the dispatcher has fired
    event        \* the last ExceptionRaised event: as fired, as the handler left it

vars == <<pc, module, sysModules, loader, load_error, scenarios, raise_as_exc_group, cur, worker,
          next, subtests, sub, test_result, fired, effects, outcome, report, extra_details,
          config_loaded, global_config, config_calls, providers,
          show_internal_calls, tb_filter, exc_raised, event>>

pluginVars == <<config_loaded, global_config, config_calls, providers,
                show_internal_calls, tb_filter, exc_raised, event>>

runVars == <<cur, worker, next, subtests, sub, test_result, fired, effects, outcome,
             report, extra_details>>

\* No ExceptionRaised event yet.
NoEvent == [fired |-> Nil, handled |-> Nil, error |-> Nil]

InitCommon ==
    /\ pc = "unloaded"
    /\ module = NoModule
    /\ sysModules = EmptyRegistry
    /\ loader = "none"
    /\ load_error = Nil
    /\ scenarios = << >>
    /\ raise_as_exc_group \in BOOLEAN
    /\ cur = 0
    /\ worker = "none"
    /\ next = 0
    /\ subtests = 0
    /\ sub = 0
    /\ test_result = NewTestResult
    /\ fired = << >>
    /\ effects = << >>
    /\ outcome = Nil
    /\ report = "none"
    /\ extra_details = << >>
    /\ config_loaded = 0
    /\ global_config = Nil
    /\ config_calls = << >>
    /\ providers = << >>
    /\ show_internal_calls = FALSE
    /\ tb_filter = Nil
    /\ exc_raised = 0
    /\ event = NoEvent

\* UnitTestLoader.load(path), the module loader returning m
Load(m) ==
    /\ pc = "unloaded"
    /\ module' = m
    /\ sysModules' = Register(sysModules, m.name, ModuleObject(m))
    /\ scenarios' = CollectScenarios(m)
    /\ loader' = "UnitTestLoader"
    /\ load_error' = Nil
    /\ pc' = "idle"
    /\ UNCHANGED <<raise_as_exc_group, runVars>>
    /\ UNCHANGED pluginVars

LoadNext == pc = "unloaded" /\ \E m \in LoadModules : Load(m)

SpecLoad == InitCommon /\ [][LoadNext]_vars

(***************************************************************************)
(* Running a scenario.  The host runs one scenario at a time, each any     *)
(* number of times (reruns): a skipped scenario is reported without its    *)
(* body being called; otherwise do(scn) is called, which runs the wrapped  *)
(* test with a new TestResult (the engine firing one callback per test),   *)
(* then processes the result; the host reports passed when do returns and  *)
(* failed when it raises, and fires the event the plugin listens to.       *)
(***************************************************************************)
\* A host that runs the body of every scenario.
IsSkippedNever(scenario) == FALSE

\* The host's view of skip(skip_reason)(scenario): the scenario is marked
\* skipped, and the host does not call the body of such a scenario.
IsSkipped(scenario) == scenario.skipped

\* The host reports a skipped scenario.
HostSkip(s) ==
    /\ pc = "idle"
    /\ IsSkipped(scenarios[s])
    /\ cur' = s
    /\ report' = "skipped"
    /\ pc' = "reported"
    /\ worker' = "none"
    /\ next' = 0
    /\ subtests' = 0
    /\ sub' = 0
    /\ test_result' = NewTestResult
    /\ fired' = << >>
    /\ effects' = << >>
    /\ outcome' = Nil
    /\ extra_details' = << >>
    /\ UNCHANGED <<module, sysModules, loader, load_error, scenarios, raise_as_exc_group>>
    /\ UNCHANGED pluginVars

\* The host calls do(scn) for its next run, the first or the one after a
\* reported run; do(scn), up to the call of test.run: _run_test creates the
\* TestResult and, for an IsolatedAsyncioTestCase, the executor whose worker
\* runs it.
Invoke(s, n) ==
    /\ pc \in {"idle", "reported"}
    /\ ~IsSkipped(scenarios[s])
    /\ cur' = s
    /\ worker' = IF SubmitsToExecutor(module.classes, scenarios[s].test)
                 THEN "running" ELSE "none"
    /\ next' = 1
    /\ subtests' = n
    /\ sub' = 0
    /\ test_result' = TestResult(test_result)
    /\ fired' = << >>
    /\ effects' = << >>
    /\ outcome' = Nil
    /\ report' = "none"
    /\ extra_details' = << >>
    /\ pc' = "running"
    /\ UNCHANGED <<module, sysModules, loader, load_error, scenarios, raise_as_exc_group>>
    /\ UNCHANGED pluginVars

\* The callbacks fired so far for the test at position next.
CurrentRecs == SelectSeq(fired, LAMBDA f : f.pos = next)

\* TestCase.run around the test method: setUp (asyncSetUp included) before
\* it, and tearDown after it whatever the method did, short of an interrupt.
SetUp(test) == <<[call |-> "setUp", test |-> test]>>

TestMethod(test) == <<[call |-> "test", test |-> test]>>

\* An engine that does not call tearDown.
TearDownNever(test) == << >>

TearDown(test) == <<[call |-> "tearDown", test |-> test]>>

\* The thread test.run executes on.
Thread == IF worker = "running" THEN "worker" ELSE "host"

\* Whether the test can run its coroutines on the thread it is run on.
Drivable(test) == ~IsolatedAsyncio(module.classes, test) \/ Thread = "worker"

\* test.run(test_result), one iteration of the subTest loop of the running
\* test: the iteration executes and the engine reports it.
RunSubTest(b) ==
    /\ pc = "running"
    /\ next <= Len(scenarios[cur].test.tests)
    /\ ~test_result.shouldStop
    /\ ~EngineSkips(module.classes, scenarios[cur].test.tests[next])
    /\ Drivable(scenarios[cur].test.tests[next])
    /\ sub < subtests
    /\ LET c == SubTestCallback(module.classes, scenarios[cur].test.tests[next],
                                sub + 1, b, OutcomeSuccess(CurrentRecs))
       IN  /\ test_result' = Fire(test_result, c)
           /\ fired' = Append(fired, [cb |-> c.cb, test |-> c.test, pos |-> next,
                                      sub |-> sub + 1, executed |-> TRUE,
                                      behaviour |-> b, thread |-> Thread])
           /\ IF c.ends THEN next' = next + 1 /\ sub' = 0
                         ELSE next' = next /\ sub' = sub + 1
           /\ effects' = effects
                  \o (IF sub = 0
                      THEN SetUp(scenarios[cur].test.tests[next])
                           \o TestMethod(scenarios[cur].test.tests[next])
                      ELSE << >>)
                  \o (IF c.ends THEN TearDown(scenarios[cur].test.tests[next])
                                ELSE << >>)
    /\ UNCHANGED <<pc, module, sysModules, loader, load_error, scenarios, raise_as_exc_group, cur,
                   worker, subtests, outcome, report, extra_details>>
    /\ UNCHANGED pluginVars

\* test.run(test_result): the engine runs the next test of the wrapped
\* TestCase or TestSuite (unless the result asks to stop) to its end, after
\* the iterations of its subTest loop, and reports it.
RunTest(b) ==
    /\ pc = "running"
    /\ next <= Len(scenarios[cur].test.tests)
    /\ ~test_result.shouldStop
    /\ \/ EngineSkips(module.classes, scenarios[cur].test.tests[next])
       \/ sub = subtests /\ Drivable(scenarios[cur].test.tests[next])
    /\ LET c == TestCallback(module.classes, scenarios[cur].test.tests[next], b,
                             OutcomeSuccess(CurrentRecs))
       IN  /\ test_result' = Fire(test_result, c)
           /\ fired' = Append(fired, [cb |-> c.cb, test |-> c.test, pos |-> next,
                                      sub |-> 0, executed |-> c.executed,
                                      behaviour |-> b, thread |-> Thread])
    /\ effects' =
          IF EngineSkips(module.classes, scenarios[cur].test.tests[next])
          THEN effects
          ELSE effects
                  \o (IF sub = 0
                      THEN SetUp(scenarios[cur].test.tests[next])
                           \o TestMethod(scenarios[cur].test.tests[next])
                      ELSE << >>)
                  \o TearDown(scenarios[cur].test.tests[next])
    /\ next' = next + 1
    /\ sub' = 0
    /\ UNCHANGED <<pc, module, sysModules, loader, load_error, scenarios, raise_as_exc_group, cur,
                   worker, subtests, outcome, report, extra_details>>
    /\ UNCHANGED pluginVars

\* test.run(test_result) on the thread of the host's event loop, the next
\* test an IsolatedAsyncioTestCase: its setUp runs, the engine reports the
\* error of its asyncSetUp, and the error of closing its asyncio runner
\* leaves test.run and do; the test method and the rest of the suite do
\* not run, and the result is not processed.
RunOnHostLoop ==
    /\ pc = "running"
    /\ next <= Len(scenarios[cur].test.tests)
    /\ ~test_result.shouldStop
    /\ ~EngineSkips(module.classes, scenarios[cur].test.tests[next])
    /\ ~Drivable(scenarios[cur].test.tests[next])
    /\ LET test == scenarios[cur].test.tests[next]
           c == [cb |-> "addError", test |-> test, err |-> RunnerRunError(test)]
       IN  /\ test_result' = Fire(test_result, c)
           /\ fired' = Append(fired, [cb |-> c.cb, test |-> c.test, pos |-> next,
                                      sub |-> 0, executed |-> FALSE,
                                      behaviour |-> "crash", thread |-> Thread])
           /\ outcome' = <<Some(LoopRunningError(test))>>
           /\ effects' = effects \o SetUp(test)
    /\ pc' = "finished"
    /\ UNCHANGED <<module, sysModules, loader, load_error, scenarios, raise_as_exc_group, cur,
                   worker, next, subtests, sub, report, extra_details>>
    /\ UNCHANGED pluginVars

\* A KeyboardInterrupt is raised while the next test runs: the engine
\* re-raises it out of test.run, and so does the future's result; the host
\* ends the whole run.
Interrupt ==
    /\ pc = "running"
    /\ next <= Len(scenarios[cur].test.tests)
    /\ ~test_result.shouldStop
    /\ ~EngineSkips(module.classes, scenarios[cur].test.tests[next])
    /\ Drivable(scenarios[cur].test.tests[next])
    /\ LET test == scenarios[cur].test.tests[next]
           escaped == Some(KeyboardInterrupt(test))
       IN  /\ fired' = Append(fired, [cb |-> "none", test |-> test, pos |-> next,
                                      sub |-> IF sub < subtests THEN sub + 1 ELSE 0,
                                      executed |-> TRUE,
                                      behaviour |-> "interrupt", thread |-> Thread])
           /\ outcome' = <<IF worker = "running" THEN FutureResult(escaped)
                                                 ELSE escaped>>
           /\ effects' = effects
                  \o (IF sub = 0 THEN SetUp(test) \o TestMethod(test) ELSE << >>)
    /\ worker' = ExecutorExit(worker)
    /\ pc' = "interrupted"
    /\ UNCHANGED <<module, sysModules, loader, load_error, scenarios, raise_as_exc_group, cur,
                   next, subtests, sub, test_result, report, extra_details>>
    /\ UNCHANGED pluginVars

\* test.run has returned: the executor, if any, is shut down; then
\* _process_test_result, and do returns or raises.
Process ==
    /\ pc = "running"
    /\ next > Len(scenarios[cur].test.tests) \/ test_result.shouldStop
    /\ LET p == ProcessTestResult(scenarios[cur], test_result, raise_as_exc_group)
       IN  /\ outcome' = <<p.raised>>
           /\ scenarios' = [scenarios EXCEPT ![cur] = p.scenario]
    /\ worker' = ExecutorExit(worker)
    /\ pc' = "finished"
    /\ UNCHANGED <<module, sysModules, loader, load_error, raise_as_exc_group, cur, next, subtests,
                   sub, test_result, fired, effects, report, extra_details>>
    /\ UNCHANGED pluginVars

\* The host marks the run passed and fires ScenarioPassedEvent.
HostPassed ==
    /\ pc = "finished"
    /\ outcome = <<Nil>>
    /\ report' = "passed"
    /\ extra_details' = OnScenarioPassed(scenarios[cur], extra_details)
    /\ pc' = "reported"
    /\ UNCHANGED <<module, sysModules, loader, load_error, scenarios, raise_as_exc_group, cur,
                   worker, next, subtests, sub, test_result, fired, effects, outcome>>
    /\ UNCHANGED pluginVars

\* The host marks the run failed and fires ScenarioFailedEvent.
HostFailed ==
    /\ pc = "finished"
    /\ outcome # <<Nil>>
    /\ report' = "failed"
    /\ extra_details' = OnScenarioFailed(scenarios[cur], extra_details)
    /\ pc' = "reported"
    /\ UNCHANGED <<module, sysModules, loader, load_error, scenarios, raise_as_exc_group, cur,
                   worker, next, subtests, sub, test_result, fired, effects, outcome>>
    /\ UNCHANGED pluginVars

\* The host goes on to the next run.
HostNext ==
    /\ pc = "reported"
    /\ pc' = "idle"
    /\ cur' = 0
    /\ worker' = "none"
    /\ next' = 0
    /\ subtests' = 0
    /\ sub' = 0
    /\ test_result' = NewTestResult
    /\ fired' = << >>
    /\ effects' = << >>
    /\ outcome' = Nil
    /\ report' = "none"
    /\ extra_details' = << >>
    /\ UNCHANGED <<module, sysModules, loader, load_error, scenarios, raise_as_exc_group>>
    /\ UNCHANGED pluginVars

LoadRun == pc = "unloaded" /\ \E m \in RunModules : Load(m)

Next ==
    \/ LoadRun
    \/ pc = "idle" /\ \E s \in 1..Len(scenarios) : HostSkip(s)
    \/ pc \in {"idle", "reported"}
          /\ \E s \in 1..Len(scenarios), n \in 0..MaxSubtests : Invoke(s, n)
    \/ pc = "running" /\ \E b \in SubBehaviours : RunSubTest(b)
    \/ pc = "running" /\ \E b \in Behaviours : RunTest(b)
    \/ RunOnHostLoop
    \/ Interrupt
    \/ Process
    \/ HostPassed
    \/ HostFailed
    \/ HostNext

Spec == InitCommon /\ [][Next]_vars

(***************************************************************************)
(* load, step by step, for either loader class: the call awaits the module *)
(* loader, which raises or returns a module; the module is registered in   *)
(* sys.modules; the scenarios are collected.  sys.modules may hold an      *)
(* object under the module's name before the call.                         *)
(***************************************************************************)
Loaders == {"UnitTestLoader", "TestCaseLoader"}

\* The error of the module loader, as an exception object of no test.
ModuleLoaderError == [type |-> "ImportError", arg |-> "boom", origin |-> "module_loader"]

InitLoaders ==
    /\ pc = "unloaded"
    /\ module = NoModule
    /\ sysModules \in {EmptyRegistry, Register(EmptyRegistry, ModuleName, PreviousObject)}
    /\ loader = "none"
    /\ load_error = Nil
    /\ scenarios = << >>
    /\ raise_as_exc_group \in BOOLEAN
    /\ cur = 0
    /\ worker = "none"
    /\ next = 0
    /\ subtests = 0
    /\ sub = 0
    /\ test_result = NewTestResult
    /\ fired = << >>
    /\ effects = << >>
    /\ outcome = Nil
    /\ report = "none"
    /\ extra_details = << >>
    /\ config_loaded = 0
    /\ global_config = Nil
    /\ config_calls = << >>
    /\ providers = << >>
    /\ show_internal_calls = FALSE
    /\ tb_filter = Nil
    /\ exc_raised = 0
    /\ event = NoEvent

\* load(path) is called: module = await self._module_loader.load(path)
CallLoad(l) ==
    /\ pc = "unloaded"
    /\ loader' = l
    /\ pc' = "awaiting"
    /\ UNCHANGED <<module, sysModules, load_error, scenarios, raise_as_exc_group,
                   runVars>>
    /\ UNCHANGED pluginVars

\* The module loader raises: load has no handler, the error leaves load.
ModuleLoaderRaises ==
    /\ pc = "awaiting"
    /\ load_error' = Some(ModuleLoaderError)
    /\ pc' = "load_failed"
    /\ UNCHANGED <<module, sysModules, loader, scenarios, raise_as_exc_group,
                   runVars>>
    /\ UNCHANGED pluginVars

\* The module loader returns m.
ModuleLoaderReturns(m) ==
    /\ pc = "awaiting"
    /\ module' = m
    /\ pc' = "module_loaded"
    /\ UNCHANGED <<sysModules, loader, load_error, scenarios, raise_as_exc_group,
                   runVars>>
    /\ UNCHANGED pluginVars

\* sys.modules[module.__name__] = module
RegisterModule ==
    /\ pc = "module_loaded"
    /\ sysModules' = Register(sysModules, module.name, ModuleObject(module))
    /\ pc' = "registered"
    /\ UNCHANGED <<module, loader, load_error, scenarios, raise_as_exc_group,
                   runVars>>
    /\ UNCHANGED pluginVars

\* return self._collect_scenarios(module): test discovery, the hook checks
\* and the building of the scenario types.
Collect ==
    /\ pc = "registered"
    /\ IF loader = "UnitTestLoader"
       THEN /\ scenarios' = CollectScenarios(module)
            /\ load_error' = Nil
            /\ pc' = "idle"
       ELSE LET r == LegacyCollectScenarios(module)
            IN  /\ scenarios' = r.scenarios
                /\ load_error' = r.raised
                /\ pc' = IF r.raised = Nil THEN "idle" ELSE "load_failed"
    /\ UNCHANGED <<module, sysModules, loader, raise_as_exc_group, runVars>>
    /\ UNCHANGED pluginVars

(***************************************************************************)
(* VedroUnitTestPlugin.on_config_loaded.  The host's dispatcher fires      *)
(* ConfigLoadedEvent (once in a run of the host; nothing in the plugin     *)
(* depends on that) and the plugin registers a scenario provider with the  *)
(* scenario collector it resolves from the configuration's registry.       *)
(***************************************************************************)
MaxConfigLoaded == 3

\* UnitTestScenarioProvider(): a new provider object for every call.
UnitTestScenarioProvider(n) == [class |-> "UnitTestScenarioProvider", instance |-> n]

\* A collector that keeps one provider per class.
RegisterProviderOnce(collector, provider, plugin) ==
    IF \E j \in 1..Len(collector) : collector[j].provider.class = provider.class
    THEN collector
    ELSE Append(collector, [provider |-> provider, registrant |-> plugin])

\* scenario_collector.register_provider(provider, plugin)
RegisterProvider(collector, provider, plugin) ==
    Append(collector, [provider |-> provider, registrant |-> plugin])

\* The calls on_config_loaded makes on event.config, as the configuration
\* sees them.
ResolveCall == "Registry.ScenarioCollector()"
RegisterCall == "Registry.ScenarioCollector().register_provider()"

OnConfigLoaded ==
    /\ config_loaded < MaxConfigLoaded
    /\ config_loaded' = config_loaded + 1
    /\ global_config' = Some("config")
    /\ config_calls' = config_calls \o <<ResolveCall, RegisterCall>>
    /\ providers' = RegisterProvider(providers,
                                     UnitTestScenarioProvider(config_loaded + 1),
                                     "VedroUnitTestPlugin")
    /\ UNCHANGED <<pc, module, sysModules, loader, load_error, scenarios,
                   raise_as_exc_group, runVars>>
    /\ UNCHANGED <<show_internal_calls, tb_filter, exc_raised, event>>

(***************************************************************************)
(* VedroUnitTestPlugin.on_exception_raised.  An exception is a record of   *)
(* its type, its __traceback__ (Nil: None; otherwise the modules of its    *)
(* frames, outermost first) and, for an exception group, its members.      *)
(***************************************************************************)
MaxExceptionRaised == 3

\* The modules a frame can belong to: the host's runner, this package, the
\* engine, and the user's test module.
InternalModules == {"unittest", "vedro_unittest"}

\* The traceback of an exception raised out of a body, as the host's runner
\* sees it, and the traceback of an exception collected inside the engine.
RaisedTracebacks ==
    {<<"vedro", "vedro_unittest", "unittest", "user">>, <<"vedro", "user">>}
CollectedTracebacks == {Nil, Some(<<"unittest", "user", "unittest">>)}

LeafTypes == {"AssertionError", "KeyboardInterrupt"}

\* issubclass(type, Exception)
IsExceptionType(type) == type \in {"AssertionError", "ExceptionGroup"}

Leaves == [type : LeafTypes, tb : CollectedTracebacks, exceptions : {<< >>}]

\* BaseExceptionGroup(msg, excs): the constructor returns an ExceptionGroup
\* when every member is an Exception.
BaseExceptionGroup(excs) ==
    [type |-> IF \A k \in 1..Len(excs) : IsExceptionType(excs[k].type)
              THEN "ExceptionGroup" ELSE "BaseExceptionGroup",
     tb |-> Some(<<"unittest", "user">>),
     exceptions |-> excs]

FlatGroups ==
    {BaseExceptionGroup(<<a>>) : a \in Leaves}
        \cup {BaseExceptionGroup(<<a, b>>) : a \in Leaves, b \in Leaves}

NestedGroups ==
    {BaseExceptionGroup(<<g>>) : g \in FlatGroups}
        \cup {BaseExceptionGroup(<<a, g>>) : a \in Leaves, g \in FlatGroups}

\* raise exc, seen where the traceback is tb.
RaiseWith(exc, tb) == [exc EXCEPT !.tb = Some(tb)]

\* ExcInfo(type, value, traceback) of the events the host can fire; exception
\* groups are built in from Python 3.11.
ExcInfos(py311) ==
    {[value |-> RaiseWith(v, tb), traceback |-> tb] :
        v \in Leaves \cup (IF py311 THEN FlatGroups \cup NestedGroups ELSE {}),
        tb \in RaisedTracebacks}

\* isinstance(exc, ExceptionGroup)
IsInstanceOfExceptionGroup(exc) == exc.type = "ExceptionGroup"

\* _yield_exceptions(exc): the exceptions it yields, each named by the path
\* of member positions that leads to it from exc.
RECURSIVE YieldExceptions(_)
YieldExceptions(exc) ==
    IF IsInstanceOfExceptionGroup(exc)
    THEN Flatten([k \in 1..Len(exc.exceptions) |->
                    LET below == YieldExceptions(exc.exceptions[k])
                    IN  [j \in 1..Len(below) |-> <<k>> \o below[j]]])
    ELSE << << >> >>

RECURSIVE ExceptionAt(_, _)
ExceptionAt(exc, path) ==
    IF path = << >> THEN exc
    ELSE ExceptionAt(exc.exceptions[Head(path)], Tail(path))

\* exc.__traceback__ = tb for the exception at path: the object is changed
\* in place, so every group that holds it sees the change.
RECURSIVE SetTraceback(_, _, _)
SetTraceback(exc, path, tb) ==
    IF path = << >> THEN [exc EXCEPT !.tb = tb]
    ELSE [exc EXCEPT !.exceptions[Head(path)] =
                        SetTraceback(exc.exceptions[Head(path)], Tail(path), tb)]

\* tb_filter_factory(modules=[unittest, vedro_unittest_module]): a new
\* filter object for every call.
TracebackFilter(modules, n) == [modules |-> modules, instance |-> n]

\* TracebackFilter.filter_tb(tb): the frames outside the filter's modules.
FilterTb(filter, tb) == SelectSeq(tb, LAMBDA frame : frame \notin filter.modules)

\* A handler that builds a filter at every event.
RebuiltTbFilter(current, built) == Some(built)

\* if self._tb_filter is None: self._tb_filter = tb_filter_factory(...)
LazyTbFilter(current, built) == IF current = Nil THEN Some(built) ELSE current

\* The loop over _yield_exceptions and the assignment that follows it.
RECURSIVE FilterYielded(_, _, _)
FilterYielded(filter, value, paths) ==
    IF paths = << >> THEN value
    ELSE LET exc == ExceptionAt(value, Head(paths))
         IN  FilterYielded(filter,
                 IF exc.tb # Nil
                 THEN SetTraceback(value, Head(paths),
                                   Some(FilterTb(filter, exc.tb[1])))
                 ELSE value,
                 Tail(paths))

OnExceptionRaised(exc_info) ==
    /\ exc_raised < MaxExceptionRaised
    /\ exc_raised' = exc_raised + 1
    /\ IF show_internal_calls
       THEN /\ event' = [fired |-> Some(exc_info), handled |-> Some(exc_info),
                         error |-> Nil]
            /\ tb_filter' = tb_filter
       ELSE IF tb_filter = Nil /\ global_config = Nil
       THEN /\ event' = [fired |-> Some(exc_info), handled |-> Some(exc_info),
                         error |-> Some("AssertionError")]
            /\ tb_filter' = tb_filter
       ELSE LET filter == LazyTbFilter(tb_filter,
                              TracebackFilter(InternalModules, exc_raised + 1))
            IN  /\ tb_filter' = filter
                /\ event' =
                     [fired |-> Some(exc_info),
                      handled |-> Some(
                         [value |-> FilterYielded(filter[1], exc_info.value,
                                        YieldExceptions(exc_info.value)),
                          traceback |-> FilterTb(filter[1], exc_info.traceback)]),
                      error |-> Nil]
    /\ UNCHANGED <<pc, module, sysModules, loader, load_error, scenarios,
                   raise_as_exc_group, runVars>>
    /\ UNCHANGED <<config_loaded, global_config, config_calls, providers,
                   show_internal_calls>>

\* A plugin instance, of either configuration, and the events of the host's
\* dispatcher it handles.
InitPlugin ==
    /\ pc = "unloaded"
    /\ module = NoModule
    /\ sysModules = EmptyRegistry
    /\ loader = "none"
    /\ load_error = Nil
    /\ scenarios = << >>
    /\ raise_as_exc_group \in BOOLEAN
    /\ cur = 0
    /\ worker = "none"
    /\ next = 0
    /\ subtests = 0
    /\ sub = 0
    /\ test_result = NewTestResult
    /\ fired = << >>
    /\ effects = << >>
    /\ outcome = Nil
    /\ report = "none"
    /\ extra_details = << >>
    /\ config_loaded = 0
    /\ global_config = Nil
    /\ config_calls = << >>
    /\ providers = << >>
    /\ show_internal_calls \in BOOLEAN
    /\ tb_filter = Nil
    /\ exc_raised = 0
    /\ event = NoEvent

NextPlugin ==
    \/ OnConfigLoaded
    \/ \E exc_info \in ExcInfos(raise_as_exc_group) : OnExceptionRaised(exc_info)

SpecPlugin == InitPlugin /\ [][NextPlugin]_vars


NextLoaders ==
    \/ OnConfigLoaded
    \/ \E l \in Loaders : CallLoad(l)
    \/ ModuleLoaderRaises
    \/ pc = "awaiting" /\ \E m \in RunModules : ModuleLoaderReturns(m)
    \/ RegisterModule
    \/ Collect
    \/ pc = "idle" /\ \E s \in 1..Len(scenarios), n \in 0..MaxSubtests : Invoke(s, n)

SpecLoaders == InitLoaders /\ [][NextLoaders]_vars

(***************************************************************************)
(* Vocabulary of the properties, stated on the module's description and    *)
(* not through the loader's own checks.                                    *)
(***************************************************************************)
Loaded == pc # "unloaded"

ClassIds == 1..Len(module.classes)

\* The module defines setUpModule or tearDownModule (a function).
DefinesModuleHook ==
    module.setUpModule = "function" \/ module.tearDownModule = "function"

\* Class i or a user-defined ancestor of it defines setUpClass or
\* tearDownClass.
OverridesClassHook(i) ==
    \E p \in 1..Len(Mro(module.classes, i)) :
        LET k == Mro(module.classes, i)[p]
        IN  k # TestCaseBase
            /\ (module.classes[k].setUpClass \/ module.classes[k].tearDownClass)

\* Every test the module holds: one per class and visible test method.
AllTests ==
    {[cls |-> i, method |-> n] : i \in ClassIds, n \in MethodNameSet}
        \ {t \in [cls : ClassIds, method : MethodNameSet] :
              t.method \notin VisibleMethods(module.classes, t.cls)}

TestsOfClass(i) == {t \in AllTests : t.cls = i}

TestSet(s) == {s.test.tests[k] : k \in 1..Len(s.test.tests)}

\* The scenarios that wrap a test of class i.
ScenariosOfClass(i) ==
    {k \in 1..Len(scenarios) : \E t \in TestSet(scenarios[k]) : t.cls = i}

\* The skip marker on the test's method and the one its class carries.
MethodSkipMarked(t) == MethodAttr(module.classes, t, SKIP) = Some(TRUE)
ClassSkipMarked(t) == ClassAttr(module.classes, t.cls, SKIP) = Some(TRUE)
SkipMarked(t) == MethodSkipMarked(t) \/ ClassSkipMarked(t)

(***************************************************************************)
(* C1: for every loaded module that defines setUpModule or tearDownModule, *)
(* load returns exactly one scenario, which wraps the whole module suite   *)
(* (every test of every class, once), whatever the classes, methods and    *)
(* class-level hooks.                                                      *)
(***************************************************************************)
C1_ModuleHookOneScenario ==
    (Loaded /\ DefinesModuleHook) =>
        /\ Len(scenarios) = 1
        /\ scenarios[1].granularity = "per-module"
        /\ ~scenarios[1].test.isCase
        /\ TestSet(scenarios[1]) = AllTests
        /\ Len(scenarios[1].test.tests) = Cardinality(AllTests)

\* Only tearDownModule is defined, two classes with three tests between
\* them, one class overriding a class-level hook.
C1_Witness ==
    /\ Loaded
    /\ module.setUpModule # "function"
    /\ module.tearDownModule = "function"
    /\ Len(module.classes) = 2
    /\ Cardinality(AllTests) >= 3
    /\ \E i \in ClassIds : OverridesClassHook(i)
    /\ Len(scenarios) = 1

(***************************************************************************)
(* C2: without module-level hooks, a class with at least one test method   *)
(* is collapsed into exactly one per-class scenario (wrapping all its      *)
(* tests) if and only if setUpClass or tearDownClass resolves, along the   *)
(* class's lookup chain, to a definition other than unittest.TestCase's.   *)
(***************************************************************************)
CollapsedIntoOne(i) ==
    /\ Cardinality(ScenariosOfClass(i)) = 1
    /\ \A k \in ScenariosOfClass(i) :
          /\ scenarios[k].granularity = "per-class"
          /\ ~scenarios[k].test.isCase
          /\ TestSet(scenarios[k]) = TestsOfClass(i)

C2_PerClassIffOverridden ==
    (Loaded /\ ~DefinesModuleHook) =>
        \A i \in ClassIds :
            TestsOfClass(i) # {} =>
                /\ CollapsedIntoOne(i) <=> OverridesClassHook(i)
                /\ ~OverridesClassHook(i) =>
                      \A k \in ScenariosOfClass(i) :
                          scenarios[k].granularity = "per-method"

\* A class that defines no hook itself and inherits setUpClass from a
\* user-defined base is collapsed.
C2_Witness ==
    /\ Loaded /\ ~DefinesModuleHook
    /\ Len(module.classes) = 2
    /\ module.classes[2].base = 1
    /\ module.classes[1].setUpClass
    /\ ~module.classes[2].setUpClass /\ ~module.classes[2].tearDownClass
    /\ Cardinality(TestsOfClass(2)) = 2
    /\ CollapsedIntoOne(2)

(***************************************************************************)
(* C3: without module-level hooks, a class without overridden class-level  *)
(* hooks contributes exactly one scenario per test method visible on it,   *)
(* inherited methods included: a base with one method and a child with one *)
(* own method give three scenarios.                                        *)
(***************************************************************************)
C3_OneScenarioPerVisibleMethod ==
    (Loaded /\ ~DefinesModuleHook) =>
        /\ \A i \in ClassIds :
              ~OverridesClassHook(i) =>
                  /\ Cardinality(ScenariosOfClass(i)) = Cardinality(TestsOfClass(i))
                  /\ \A t \in TestsOfClass(i) :
                        Cardinality({k \in ScenariosOfClass(i) :
                                        /\ scenarios[k].granularity = "per-method"
                                        /\ scenarios[k].test = Case(t)}) = 1
        /\ (/\ Len(module.classes) = 2
            /\ module.classes[2].base = 1
            /\ \A i \in ClassIds : ~OverridesClassHook(i)
            /\ DOMAIN module.classes[1].methods = {"test_a"}
            /\ DOMAIN module.classes[2].methods = {"test_b_c"})
                => Len(scenarios) = 3

C3_Witness ==
    /\ Loaded /\ ~DefinesModuleHook
    /\ Len(module.classes) = 2
    /\ module.classes[2].base = 1
    /\ \A i \in ClassIds : ~OverridesClassHook(i)
    /\ DOMAIN module.classes[1].methods = {"test_a"}
    /\ DOMAIN module.classes[2].methods = {"test_b_c"}
    /\ Len(scenarios) = 3
    /\ \E k \in 1..Len(scenarios) :
          scenarios[k].test = Case([cls |-> 2, method |-> "test_a"])

(***************************************************************************)
(* C8 as stated: a per-class or per-module scenario is marked skipped at   *)
(* build time if and only if all test methods its suite contains are       *)
(* skip-marked, and then its reason is "All tests are skipped".            *)
(***************************************************************************)
SuiteScenarios ==
    {k \in 1..Len(scenarios) : scenarios[k].granularity \in {"per-class", "per-module"}}

C8_Original ==
    Loaded =>
        \A k \in SuiteScenarios :
            /\ scenarios[k].skipped <=> \A t \in TestSet(scenarios[k]) : SkipMarked(t)
            /\ scenarios[k].skipped =>
                  scenarios[k].skip_reason = Some("All tests are skipped")

(***************************************************************************)
(* C8 amended: a per-class or per-module scenario is marked skipped at     *)
(* build time if and only if its suite contains at least one test method   *)
(* and all of them are skip-marked; its reason then is "All tests are      *)
(* skipped" (an empty suite is never marked skipped).                      *)
(***************************************************************************)
C8_SuiteSkippedIffAllMarked ==
    Loaded =>
        \A k \in SuiteScenarios :
            /\ scenarios[k].skipped <=>
                  /\ TestSet(scenarios[k]) # {}
                  /\ \A t \in TestSet(scenarios[k]) : SkipMarked(t)
            /\ scenarios[k].skipped =>
                  scenarios[k].skip_reason = Some("All tests are skipped")
            /\ ~scenarios[k].skipped => scenarios[k].skip_reason = Nil

\* A suite whose tests are all skip-marked, through a method marker with its
\* own reason and through the class marker.
C8_Witness ==
    /\ Loaded
    /\ \E k \in SuiteScenarios :
          /\ scenarios[k].skipped
          /\ Cardinality(TestSet(scenarios[k])) >= 2
          /\ \E t \in TestSet(scenarios[k]) :
                MethodSkipMarked(t) /\ MethodAttr(module.classes, t, SKIP_WHY) = Some("m")
          /\ \E t \in TestSet(scenarios[k]) : ~MethodSkipMarked(t) /\ ClassSkipMarked(t)

(***************************************************************************)
(* C9: a per-method scenario is marked skipped at build time if and only   *)
(* if its test method or its class carries a skip marker; the reason is    *)
(* that marker's text unchanged, the method's marker before the class's,   *)
(* and the empty string for a marker without text.                         *)
(***************************************************************************)
C9_MethodSkipAndReason ==
    Loaded =>
        \A k \in 1..Len(scenarios) :
            scenarios[k].granularity = "per-method" =>
                LET t == scenarios[k].test.tests[1]
                IN  /\ scenarios[k].test.isCase
                    /\ scenarios[k].skipped <=> SkipMarked(t)
                    /\ MethodSkipMarked(t) =>
                          scenarios[k].skip_reason = MethodAttr(module.classes, t, SKIP_WHY)
                    /\ (~MethodSkipMarked(t) /\ ClassSkipMarked(t)) =>
                          scenarios[k].skip_reason = ClassAttr(module.classes, t.cls, SKIP_WHY)
                    /\ ~SkipMarked(t) => scenarios[k].skip_reason = Nil

\* A method marked without text in a class marked with a reason: the
\* scenario's reason is the empty string.
C9_Witness ==
    /\ Loaded
    /\ \E k \in 1..Len(scenarios) :
          /\ scenarios[k].granularity = "per-method"
          /\ MethodAttr(module.classes, scenarios[k].test.tests[1], SKIP_WHY) = Some("")
          /\ ClassAttr(module.classes, scenarios[k].test.tests[1].cls, SKIP_WHY) = Some("c")
          /\ scenarios[k].skipped
          /\ scenarios[k].skip_reason = Some("")

(***************************************************************************)
(* Vocabulary of the run-time properties.                                  *)
(***************************************************************************)
Exceptions == test_result.vedro_unittest_exceptions
ExpectedFailures == test_result.vedro_unittest_expected_failures
UnexpectedSuccesses == test_result.vedro_unittest_unexpected_successes

\* The step in which do(scn) processes the collected result and ends.
ProcessStep == pc = "running" /\ pc' = "finished"

\* The aggregate of the collected exceptions, in the order recorded.
Aggregate ==
    [type |-> "ExceptionGroup", arg |-> "Multiple Unittest Exceptions",
     exceptions |-> Excs(Exceptions)]

BodyEnded == pc \in {"finished", "reported"} /\ report # "skipped"

(***************************************************************************)
(* C4: when the exceptions bucket is non-empty after a run, the body       *)
(* raises one aggregate of exactly the collected exceptions, in recorded   *)
(* order, if the bucket holds more than one entry and aggregates are       *)
(* supported, and the first recorded exception itself in every other case. *)
(***************************************************************************)
C4_Original ==
    (pc = "finished" /\ Exceptions # << >>) =>
        IF Len(Exceptions) > 1 /\ raise_as_exc_group
        THEN outcome = <<Some(Aggregate)>>
        ELSE outcome = <<Some(Exceptions[1].exc)>>

(***************************************************************************)
(* C5: whenever the exceptions bucket is non-empty, the body raises from   *)
(* that bucket (its first exception or the aggregate of its exceptions)    *)
(* and the invocation attaches neither expected-failure nor                *)
(* unexpected-success metadata to the scenario type, whatever the other    *)
(* two buckets hold.                                                       *)
(***************************************************************************)
C5_Original ==
    [][(ProcessStep /\ Exceptions # << >>) =>
          /\ outcome' \in {<<Some(Exceptions[1].exc)>>, <<Some(Aggregate)>>}
          /\ scenarios' = scenarios]_vars

\* The part of C5 that holds in every run: with a non-empty exceptions
\* bucket the body raises and the scenario type keeps its attributes.
C5_FailuresFirst ==
    [][(ProcessStep /\ Exceptions # << >>) =>
          /\ outcome' # <<Nil>>
          /\ scenarios' = scenarios]_vars

(***************************************************************************)
(* C6 as stated: whenever the exceptions bucket is empty and the           *)
(* expected_failures bucket is not, outcome translation attaches the first *)
(* recorded expected-failure exception to the scenario type, raises        *)
(* nothing, and does not consider the unexpected-success branch.           *)
(***************************************************************************)
C6_Original ==
    [][(ProcessStep /\ Exceptions = << >> /\ ExpectedFailures # << >>) =>
          /\ scenarios'[cur].expected_failure = Some(ExpectedFailures[1].exc)
          /\ outcome' = <<Nil>>
          /\ scenarios'[cur].unexpected_success = scenarios[cur].unexpected_success]_vars

(***************************************************************************)
(* C6 amended: whenever the exceptions bucket is empty and the             *)
(* expected_failures bucket is not, outcome translation attaches the first *)
(* recorded expected-failure exception to the scenario type; it then       *)
(* raises nothing and lets the body return normally if the                 *)
(* unexpected_successes bucket is empty, and otherwise also attaches the   *)
(* first unexpected-success error and raises it.  No other scenario type   *)
(* is touched.                                                             *)
(***************************************************************************)
C6_ExpectedFailureThenUnexpected ==
    [][(ProcessStep /\ Exceptions = << >> /\ ExpectedFailures # << >>) =>
          /\ scenarios'[cur].expected_failure = Some(ExpectedFailures[1].exc)
          /\ IF UnexpectedSuccesses = << >>
             THEN /\ outcome' = <<Nil>>
                  /\ scenarios'[cur].unexpected_success
                        = scenarios[cur].unexpected_success
             ELSE /\ outcome' = <<Some(UnexpectedSuccesses[1].exc)>>
                  /\ scenarios'[cur].unexpected_success
                        = Some(UnexpectedSuccesses[1].exc)
          /\ \A k \in 1..Len(scenarios) : k # cur => scenarios'[k] = scenarios[k]]_vars

\* A suite with one expected failure and one unexpected success: both
\* attributes are set and the body raises the unexpected-success error.
C6_Witness ==
    /\ pc = "finished"
    /\ Exceptions = << >>
    /\ Len(ExpectedFailures) = 1
    /\ Len(UnexpectedSuccesses) = 1
    /\ scenarios[cur].expected_failure = Some(ExpectedFailures[1].exc)
    /\ scenarios[cur].unexpected_success = Some(UnexpectedSuccesses[1].exc)
    /\ outcome = <<Some(UnexpectedSuccesses[1].exc)>>

SkipFired == {k \in 1..Len(fired) : fired[k].cb = "addSkip"}

SkipEntries == {k \in 1..Len(Exceptions) : Exceptions[k].exc.type = "SkipTest"}

C10_SkipCallbackFails ==
    (pc \in {"running", "finished", "reported"} /\ SkipFired # {}) =>
        /\ Cardinality(SkipEntries) = Cardinality(SkipFired)
        /\ \A k \in SkipFired :
              \E j \in SkipEntries :
                  /\ Exceptions[j].test = fired[k].test
                  /\ Exceptions[j].exc.origin = fired[k].test
        /\ pc \in {"finished", "reported"} =>
              /\ outcome # <<Nil>>
              /\ \A j \in 1..Len(scenarios[cur].test.tests) :
                    ~SkipMarked(scenarios[cur].test.tests[j]) =>
                        \E k \in 1..Len(fired) :
                            /\ fired[k].test = scenarios[cur].test.tests[j]
                            /\ fired[k].executed
        /\ pc = "reported" => report = "failed"

\* The part of C10 that holds in every run: C10 for the bodies in which no
\* IsolatedAsyncioTestCase is run on the thread of the host's event loop
\* (where the run of the first such test ends the body, see C16).
HostLoopCrashes == {k \in 1..Len(fired) : fired[k].behaviour = "crash"}

C10_SkipCallbackFailsOffHostLoop == HostLoopCrashes = {} => C10_SkipCallbackFails

\* A suite whose first test is skip-marked and whose second test runs and
\* passes: the scenario is reported failed.
C10_Witness ==
    /\ pc = "reported"
    /\ ~scenarios[cur].test.isCase
    /\ Len(fired) = 2
    /\ fired[1].cb = "addSkip" /\ ~fired[1].executed
    /\ fired[2].cb = "addSuccess" /\ fired[2].executed
    /\ outcome = <<Some(Exc("SkipTest", "m", fired[1].test))>>
    /\ report = "failed"

(***************************************************************************)
(* C11: a recorded failure or error never stops the rest of the scenario   *)
(* body.  When a body invocation in which a subtest or a unit has failed   *)
(* ends, every unit of the wrapped suite that is not skip-marked has       *)
(* executed, in suite order, each with every iteration of its subTest loop *)
(* in order before the rest of the method (only a unit that expects its    *)
(* failure is ended by it, which is not a recorded failure); the body      *)
(* raises, and the run is reported failed, once: the report of a run does  *)
(* not change until the host goes on to the next run.                      *)
(***************************************************************************)
\* The failures and errors recorded in the running body.
RecordedFailures ==
    {k \in 1..Len(fired) :
        \/ fired[k].cb \in {"addFailure", "addError"}
        \/ fired[k].cb = "addSubTest" /\ fired[k].behaviour # "pass"}

\* The iterations (0: the rest of the method) unit j has executed, in order.
ExecutedParts(j) ==
    LET recs == SelectSeq(fired, LAMBDA f : f.pos = j /\ f.executed)
    IN  [k \in 1..Len(recs) |-> recs[k].sub]

AllParts == [k \in 1..(subtests + 1) |-> IF k <= subtests THEN k ELSE 0]

Units == scenarios[cur].test.tests

C11_AllPartsExecuted ==
    (BodyEnded /\ RecordedFailures # {}) =>
        /\ \A j \in 1..Len(Units) :
              IF SkipMarked(Units[j]) THEN ExecutedParts(j) = << >>
              ELSE IF ExpectingFailure(module.classes, Units[j])
              THEN \/ ExecutedParts(j) = AllParts
                   \/ \E n \in 1..subtests :
                         /\ ExecutedParts(j) = [k \in 1..n |-> k]
                         /\ \E k \in 1..Len(fired) :
                               /\ fired[k].pos = j /\ fired[k].sub = n
                               /\ fired[k].cb = "addExpectedFailure"
              ELSE ExecutedParts(j) = AllParts
        /\ \A k \in 1..(Len(fired) - 1) : fired[k].pos <= fired[k + 1].pos
        /\ Len(Exceptions) = Cardinality(RecordedFailures) + Cardinality(SkipFired)
        /\ outcome # <<Nil>>
        /\ pc = "reported" => report = "failed"

C11_ReportedOnce ==
    [][report # "none" =>
          (report' = report \/ (pc = "reported" /\ pc' \in {"idle", "running"}))]_vars

C11_FailureNeverStops == []C11_AllPartsExecuted /\ C11_ReportedOnce

\* The part of C11 that holds in every run: C11 for the bodies in which no
\* IsolatedAsyncioTestCase is run on the thread of the host's event loop
\* (there the error recorded for the first such test is followed by the
\* end of the body, see C16).
C11_FailureNeverStopsOffHostLoop ==
    /\ [](HostLoopCrashes = {} => C11_AllPartsExecuted)
    /\ C11_ReportedOnce

\* A suite whose first unit fails in the first of two subtest iterations:
\* the second iteration, the rest of the method and the second unit have
\* all executed, and the run is reported failed.
C11_Witness ==
    /\ pc = "reported"
    /\ report = "failed"
    /\ subtests = 2
    /\ Len(Units) = 2
    /\ Len(fired) = 6
    /\ fired[1].cb = "addSubTest" /\ fired[1].behaviour = "fail"
    /\ fired[2].cb = "addSubTest" /\ fired[2].behaviour = "pass"
    /\ fired[3].cb = "none" /\ fired[3].sub = 0
    /\ fired[6].cb = "addSuccess" /\ fired[6].pos = 2
    /\ Len(Exceptions) = 1

(***************************************************************************)
(* C12: load either fails with the module loader's error, propagated       *)
(* unchanged, with the module registry as it was and no scenario created,  *)
(* or returns a list of scenario types; it fails in no other way, whatever *)
(* the module holds.                                                       *)
(***************************************************************************)
LoadEnded == pc \in {"idle", "load_failed", "running"}

C12_Original ==
    LoadEnded =>
        \/ load_error = Nil /\ pc # "load_failed"
        \/ /\ load_error = Some(ModuleLoaderError)
           /\ module = NoModule
           /\ scenarios = << >>
           /\ \A n \in DOMAIN sysModules : sysModules[n] = PreviousObject

\* C12 for UnitTestLoader alone, which the runs confirm.
C12_UnitTestLoaderTotal ==
    (LoadEnded /\ loader = "UnitTestLoader") => C12_Original

(***************************************************************************)
(* C13: an empty suite yields zero scenarios.  For every loaded module, no *)
(* scenario returned by load wraps a suite that holds no test, and a       *)
(* module whose classes have no test methods yields an empty list.         *)
(***************************************************************************)
C13_Original ==
    Loaded =>
        /\ \A k \in 1..Len(scenarios) : Len(scenarios[k].test.tests) >= 1
        /\ AllTests = {} => scenarios = << >>

\* C13 for the modules without module-level hooks, which the runs confirm:
\* a class without test methods contributes no scenario.
C13_NoEmptyClassScenario ==
    (Loaded /\ ~DefinesModuleHook) =>
        /\ \A k \in 1..Len(scenarios) : Len(scenarios[k].test.tests) >= 1
        /\ \A i \in ClassIds : TestsOfClass(i) = {} => ScenariosOfClass(i) = {}
        /\ AllTests = {} => scenarios = << >>

(***************************************************************************)
(* C14 as stated: for every module that contains exactly one test method,  *)
(* load returns exactly one scenario and its subject is "[<Class>] " and   *)
(* the method name with every underscore replaced by a space.              *)
(***************************************************************************)
\* The test method definitions of the module: (class, name) pairs.
MethodDefinitions ==
    {d \in [cls : ClassIds, method : MethodNameSet] :
        d.method \in DOMAIN module.classes[d.cls].methods}

\* "[<Class>] <method>", each underscore of the method a space, stated
\* position by position.
IsMethodSubject(subject, t) ==
    LET cn == Chars[ClassNames[t.cls]]
        mn == Chars[t.method]
        at == Len(cn) + 3
    IN  /\ Len(subject) = at + Len(mn)
        /\ subject[1] = "["
        /\ \A k \in 1..Len(cn) : subject[1 + k] = cn[k]
        /\ subject[at - 1] = "]"
        /\ subject[at] = " "
        /\ \A k \in 1..Len(mn) :
              subject[at + k] = IF mn[k] = "_" THEN " " ELSE mn[k]

C14_Original ==
    (Loaded /\ Cardinality(MethodDefinitions) = 1) =>
        /\ Len(scenarios) = 1
        /\ \A d \in MethodDefinitions : IsMethodSubject(scenarios[1].subject, d)

(***************************************************************************)
(* C14 amended: for every module that holds exactly one test (one test     *)
(* method, visible on exactly one class) and in which neither the module   *)
(* defines setUpModule or tearDownModule nor the class (or an ancestor)    *)
(* setUpClass or tearDownClass, load returns exactly one scenario and its  *)
(* subject is "[<Class>] " and the method name with every underscore       *)
(* replaced by a space.                                                    *)
(***************************************************************************)
C14_OneTestOneSubject ==
    (/\ Loaded
     /\ Cardinality(AllTests) = 1
     /\ ~DefinesModuleHook
     /\ \A i \in ClassIds : ~OverridesClassHook(i))
    => /\ Len(scenarios) = 1
       /\ \A t \in AllTests :
             /\ scenarios[1].test = Case(t)
             /\ IsMethodSubject(scenarios[1].subject, t)

\* The one test method has two underscores in its name.
C14_Witness ==
    /\ Loaded
    /\ AllTests = {[cls |-> 1, method |-> "test_b_c"]}
    /\ ~DefinesModuleHook
    /\ Len(scenarios) = 1
    /\ scenarios[1].subject =
          <<"[", "A", "]", " ", "t", "e", "s", "t", " ", "b", " ", "c">>

(***************************************************************************)
(* The report of a run of all scenarios of the module: the host schedules  *)
(* every scenario once and reports a scenario marked skipped as skipped.   *)
(***************************************************************************)
ReportTotal == Len(scenarios)
ReportSkipped == Cardinality({k \in 1..Len(scenarios) : scenarios[k].skipped})

\* The module's only test class carries a class-level skip marker and has
\* two test methods.
SkippedClassOfTwo ==
    /\ Loaded
    /\ Len(module.classes) = 1
    /\ module.classes[1].attrs[SKIP] = Some(TRUE)
    /\ Cardinality(DOMAIN module.classes[1].methods) = 2

(***************************************************************************)
(* C15 as stated: for a module whose only test class has a class-level     *)
(* skip marker and two test methods, load returns exactly one collapsed    *)
(* scenario, and running it gives report.total == report.skipped == 1.     *)
(***************************************************************************)
C15_Original ==
    SkippedClassOfTwo =>
        /\ Len(scenarios) = 1
        /\ ~scenarios[1].test.isCase
        /\ ReportTotal = 1
        /\ ReportSkipped = 1

(***************************************************************************)
(* C15 amended: for such a module, load returns two per-method scenarios,  *)
(* both marked skipped (with the class's reason, or the method's own when  *)
(* the method is skip-marked too), and running them gives                  *)
(* report.total == report.skipped == 2, unless the module or the class     *)
(* defines a module-level or class-level hook: only then load returns one  *)
(* collapsed scenario, skipped with the reason "All tests are skipped",    *)
(* and report.total == report.skipped == 1.  In both cases no body runs.   *)
(***************************************************************************)
C15_SkippedClassPerMethod ==
    SkippedClassOfTwo =>
        /\ IF DefinesModuleHook \/ OverridesClassHook(1)
           THEN /\ Len(scenarios) = 1
                /\ ~scenarios[1].test.isCase
                /\ scenarios[1].skip_reason = Some("All tests are skipped")
           ELSE /\ Len(scenarios) = 2
                /\ \A k \in 1..2 :
                      /\ scenarios[k].test.isCase
                      /\ scenarios[k].skip_reason
                            = LET own == MethodAttr(module.classes,
                                             scenarios[k].test.tests[1], SKIP_WHY)
                              IN  IF own # Nil THEN own
                                  ELSE module.classes[1].attrs[SKIP_WHY]
        /\ ReportTotal = Len(scenarios)
        /\ ReportSkipped = Len(scenarios)
        /\ pc \notin {"running", "finished"}
        /\ pc = "reported" => report = "skipped" /\ fired = << >>

\* The second of the two per-method scenarios has been reported skipped.
C15_Witness ==
    /\ SkippedClassOfTwo
    /\ ~DefinesModuleHook /\ ~OverridesClassHook(1)
    /\ \A n \in DOMAIN module.classes[1].methods :
          module.classes[1].methods[n] = NoAttrs
    /\ Len(scenarios) = 2
    /\ pc = "reported" /\ cur = 2 /\ report = "skipped"

(***************************************************************************)
(* C16: every unit that is an IsolatedAsyncioTestCase is executed inside a *)
(* dedicated short-lived worker and never on the host's own thread, at     *)
(* every granularity (per-method, per-class and per-module), and the       *)
(* scenario body blocks once, until that isolated run has fully completed: *)
(* whatever the engine has run of such a unit (its setUp included) was run *)
(* on the worker's thread, and when the body has ended the worker has      *)
(* ended.                                                                  *)
(***************************************************************************)
\* The records of the units the engine has run (a skip-marked unit is only
\* reported).
RunRecords ==
    {k \in 1..Len(fired) : ~EngineSkips(module.classes, fired[k].test)}

C16_Original ==
    /\ \A k \in RunRecords :
          IsolatedAsyncio(module.classes, fired[k].test) =>
              fired[k].thread = "worker"
    /\ pc \in {"finished", "interrupted", "reported"} => worker # "running"

\* The part of C16 that holds in every run: the unit of a per-method
\* scenario that is an IsolatedAsyncioTestCase runs on the worker's thread
\* only, the body waiting for it, and the worker has ended when the body
\* has.
C16_PerMethodOnWorker ==
    /\ \A k \in RunRecords :
          (scenarios[cur].test.isCase
             /\ IsolatedAsyncio(module.classes, fired[k].test)) =>
                fired[k].thread = "worker"
    /\ pc \in {"finished", "interrupted", "reported"} => worker # "running"
    /\ worker = "running" => pc = "running" /\ outcome = Nil

\* A per-method scenario of an IsolatedAsyncioTestCase whose run has ended:
\* both subtest iterations and the rest of the method ran on the worker.
C16_Witness ==
    /\ pc = "finished"
    /\ scenarios[cur].test.isCase
    /\ IsolatedAsyncio(module.classes, scenarios[cur].test.tests[1])
    /\ worker = "joined"
    /\ Len(fired) = 3
    /\ \A k \in 1..3 : fired[k].executed /\ fired[k].thread = "worker"

(***************************************************************************)
(* C17: an interrupt (or any other exception) that leaves the worker's run *)
(* is propagated to the caller of the scenario body and never swallowed:   *)
(* the body raises the very exception; the body has no timeout of its own: *)
(* as long as the worker runs, the body has not ended; and after the body  *)
(* has returned or raised, no worker of that invocation is left running.   *)
(***************************************************************************)
C17_InterruptPropagated ==
    /\ pc = "interrupted" =>
          outcome = <<Some(KeyboardInterrupt(fired[Len(fired)].test))>>
    /\ worker = "running" => pc = "running" /\ outcome = Nil
    /\ pc \in {"finished", "interrupted", "reported", "idle"} => worker # "running"

\* An interrupt raised on the worker's thread in the second subtest
\* iteration of an IsolatedAsyncioTestCase: the body has raised it and the
\* worker is joined.
C17_Witness ==
    /\ pc = "interrupted"
    /\ worker = "joined"
    /\ Len(fired) = 2
    /\ fired[2].behaviour = "interrupt"
    /\ fired[2].thread = "worker"
    /\ fired[2].sub = 2
    /\ outcome = <<Some(KeyboardInterrupt(fired[2].test))>>

(***************************************************************************)
(* C18: in every successful load, the module is registered under its own   *)
(* name in sys.modules, replacing any previous entry of that name, after   *)
(* the module loader has returned and before test discovery, the hook      *)
(* checks and any scenario body execution: until the module loader has     *)
(* returned the registry holds no object of this load; once load is past   *)
(* its registration, and as long as scenarios exist or run, the registry   *)
(* holds under the module's name the object the module loader returned;    *)
(* and each of the steps that discover the tests or start a body is taken  *)
(* from a state in which it does.                                          *)
(***************************************************************************)
Registered ==
    /\ module.name \in DOMAIN sysModules
    /\ sysModules[module.name] = ModuleObject(module)

C18_NotBeforeModuleLoaded ==
    pc \in {"unloaded", "awaiting", "module_loaded"} =>
        /\ \A n \in DOMAIN sysModules : sysModules[n] = PreviousObject
        /\ scenarios = << >>

C18_RegisteredAfter ==
    (pc \in {"registered", "idle", "running"} \/ scenarios # << >>) => Registered

C18_RegisteredBeforeDiscovery ==
    /\ []C18_NotBeforeModuleLoaded
    /\ []C18_RegisteredAfter
    /\ [][(scenarios' # scenarios \/ pc' \in {"idle", "running"}) => Registered]_vars
    /\ [][(pc = "module_loaded" /\ pc' # pc) =>
              sysModules' = Register(sysModules, module.name, ModuleObject(module))]_vars

\* A successful load of a module with setUpModule whose per-module scenario
\* is running: the registry holds the loaded module under its name.
C18_Witness ==
    /\ pc = "running"
    /\ loader = "UnitTestLoader"
    /\ load_error = Nil
    /\ module.setUpModule = "function"
    /\ scenarios[cur].granularity = "per-module"
    /\ sysModules[ModuleName] = ModuleObject(module)
    /\ sysModules[ModuleName] # PreviousObject

(***************************************************************************)
(* C19: each scenario body invocation creates exactly one fresh TestResult *)
(* with three empty lists, and after any sequence of body invocations (of  *)
(* the same or of different scenarios) the lists handed to                 *)
(* _process_test_result contain only entries recorded during the current   *)
(* invocation: at every moment the three lists hold, in order, exactly the *)
(* entries of the callbacks the engine has fired in the current body; the  *)
(* step that starts a body leaves the collector empty; and while the body  *)
(* runs the lists only grow.                                               *)
(***************************************************************************)
\* The tests of the callbacks fired in the current body that record into
\* the exceptions list, the expected failures and the unexpected successes.
FiredExceptions ==
    SelectSeq(fired, LAMBDA f : \/ f.cb \in {"addError", "addFailure", "addSkip"}
                                \/ f.cb = "addSubTest" /\ f.behaviour # "pass")

FiredExpectedFailures == SelectSeq(fired, LAMBDA f : f.cb = "addExpectedFailure")

FiredUnexpectedSuccesses == SelectSeq(fired, LAMBDA f : f.cb = "addUnexpectedSuccess")

SameTests(entries, recs) ==
    /\ Len(entries) = Len(recs)
    /\ \A j \in 1..Len(entries) : entries[j].test = recs[j].test

IsPrefix(a, b) == Len(a) <= Len(b) /\ \A j \in 1..Len(a) : a[j] = b[j]

C19_OnlyCurrentEntries ==
    /\ SameTests(Exceptions, FiredExceptions)
    /\ SameTests(ExpectedFailures, FiredExpectedFailures)
    /\ SameTests(UnexpectedSuccesses, FiredUnexpectedSuccesses)

C19_FreshCollector ==
    /\ []C19_OnlyCurrentEntries
    /\ [][(pc # "running" /\ pc' = "running") => test_result' = NewTestResult]_vars
    /\ [][(pc = "running" /\ pc' \in {"running", "finished", "interrupted"}) =>
              /\ IsPrefix(Exceptions, test_result'.vedro_unittest_exceptions)
              /\ IsPrefix(ExpectedFailures, test_result'.vedro_unittest_expected_failures)
              /\ IsPrefix(UnexpectedSuccesses,
                          test_result'.vedro_unittest_unexpected_successes)]_vars

\* A scenario invoked again after an invocation that recorded an unexpected
\* success (the scenario type still carries it): this time the test fails
\* as expected, and the collector holds that one entry only.
C19_Witness ==
    /\ pc = "finished"
    /\ scenarios[cur].unexpected_success # Nil
    /\ UnexpectedSuccesses = << >>
    /\ Exceptions = << >>
    /\ Len(ExpectedFailures) = 1
    /\ Len(fired) = 1
    /\ fired[1].cb = "addExpectedFailure"

(***************************************************************************)
(* C20: each ConfigLoadedEvent makes the plugin perform exactly one        *)
(* registration of its scenario loading pipeline in the host's registry    *)
(* and no other interaction with the configuration; registration is not    *)
(* deduplicated, so k events produce k registrations: after k events the   *)
(* host holds k registrations and the configuration has received k calls,  *)
(* each of them a registration.                                            *)
(***************************************************************************)
C20_Original ==
    /\ Len(providers) = config_loaded
    /\ Len(config_calls) = config_loaded
    /\ \A j \in 1..Len(config_calls) : config_calls[j] = RegisterCall

\* The part of C20 that holds in every run: k events produce k
\* registrations, each of a new provider object by this plugin, and 2k
\* calls on the configuration: for each event the resolution of the
\* scenario collector, then the registration with it.
C20_OneRegistrationPerEvent ==
    /\ Len(providers) = config_loaded
    /\ \A j \in 1..Len(providers) :
          providers[j] = [provider |-> UnitTestScenarioProvider(j),
                          registrant |-> "VedroUnitTestPlugin"]
    /\ Len(config_calls) = 2 * config_loaded
    /\ \A j \in 1..config_loaded :
          /\ config_calls[2 * j - 1] = ResolveCall
          /\ config_calls[2 * j] = RegisterCall
    /\ global_config = IF config_loaded = 0 THEN Nil ELSE Some("config")

\* Two events: two registrations, four calls on the configuration.
C20_Witness ==
    /\ config_loaded = 2
    /\ Len(providers) = 2
    /\ providers[1] # providers[2]
    /\ Len(config_calls) = 4

(***************************************************************************)
(* C22: the plugin appends a detail note only for the matching metadata: a *)
(* ScenarioPassed event adds one note if and only if the scenario carries  *)
(* expected-failure metadata, a ScenarioFailed event adds one note if and  *)
(* only if it carries unexpected-success metadata, and in every other case *)
(* the result's extra details are left unchanged.                          *)
(***************************************************************************)
\* The step in which the host reports a body's end and fires the event.
EventStep == pc = "finished" /\ pc' = "reported"

NoteAdded(kind) ==
    /\ Len(extra_details') = Len(extra_details) + 1
    /\ SubSeq(extra_details', 1, Len(extra_details)) = extra_details
    /\ extra_details'[Len(extra_details')].note = kind

C22_NoteIffMatchingMetadata ==
    [][EventStep =>
          IF outcome = <<Nil>>
          THEN IF scenarios[cur].expected_failure # Nil
               THEN NoteAdded("Expected Failure")
               ELSE extra_details' = extra_details
          ELSE IF scenarios[cur].unexpected_success # Nil
               THEN NoteAdded("Unexpected Success")
               ELSE extra_details' = extra_details]_vars

\* A failed run of a scenario that carries expected-failure metadata only
\* (of an earlier invocation): no note is added.
C22_Witness ==
    /\ pc = "reported"
    /\ report = "failed"
    /\ scenarios[cur].expected_failure # Nil
    /\ scenarios[cur].unexpected_success = Nil
    /\ extra_details = << >>

(***************************************************************************)
(* C23: a scenario identified as skipped at build time never executes its  *)
(* body: whenever the host has taken up such a scenario, no unit has run   *)
(* and no collector callback has fired, no worker was started, nothing was *)
(* raised, and the host reports it skipped; and no body that runs belongs  *)
(* to a scenario marked skipped.                                           *)
(***************************************************************************)
C23_SkippedNeverExecutes ==
    (cur # 0 /\ scenarios[cur].skipped) =>
        /\ pc = "reported"
        /\ report = "skipped"
        /\ fired = << >>
        /\ test_result = NewTestResult
        /\ worker = "none"
        /\ outcome = Nil
        /\ extra_details = << >>

\* The per-class scenario of a class with setUpClass whose two tests are
\* skip-marked, reported skipped.
C23_Witness ==
    /\ pc = "reported"
    /\ report = "skipped"
    /\ scenarios[cur].granularity = "per-class"
    /\ Len(scenarios[cur].test.tests) = 2
    /\ scenarios[cur].skip_reason = Some("All tests are skipped")
    /\ fired = << >>

(***************************************************************************)
(* C25: a scenario type is immutable after creation: once load has         *)
(* returned it, no later operation (body invocation, outcome translation,  *)
(* plugin event handling) changes any of its attributes.                   *)
(***************************************************************************)
C25_Original == [][pc # "unloaded" => scenarios' = scenarios]_vars

\* The part of C25 that holds in every run: after load, every attribute of
\* a scenario type other than the two that _process_test_result sets
\* (__vedro_unittest_expected_failure__, __vedro_unittest_unexpected_success__)
\* keeps its value, and the list of scenario types keeps its length.
WithoutMetadata(scenario) ==
    [scenario EXCEPT !.expected_failure = Nil, !.unexpected_success = Nil]

C25_OnlyMetadataChanges ==
    [][pc # "unloaded" =>
          /\ Len(scenarios') = Len(scenarios)
          /\ \A s \in 1..Len(scenarios) :
                WithoutMetadata(scenarios'[s]) = WithoutMetadata(scenarios[s])
          /\ scenarios' # scenarios => ProcessStep]_vars

\* A scenario type that outcome translation has changed.
C25_Witness ==
    /\ pc = "finished"
    /\ scenarios[cur].expected_failure # Nil
    /\ scenarios[cur].name = BuildVedroScenario(module.classes, scenarios[cur].test,
                                                 scenarios[cur].granularity,
                                                 scenarios[cur].name,
                                                 scenarios[cur].subject).name
    /\ scenarios[cur] # BuildVedroScenario(module.classes, scenarios[cur].test,
                                           scenarios[cur].granularity,
                                           scenarios[cur].name,
                                           scenarios[cur].subject)

(***************************************************************************)
(* C27: every callback of the collector changes at most its own list:      *)
(* addError, addFailure, addSkip and addSubTest with an error each append  *)
(* exactly one entry to the exceptions; addExpectedFailure appends exactly *)
(* one entry to the expected failures; addUnexpectedSuccess appends exactly*)
(* one UnexpectedSuccessError entry to the unexpected successes;           *)
(* addSuccess and addSubTest without an error change nothing; no callback  *)
(* removes or reorders entries.                                            *)
(***************************************************************************)
\* The step in which the engine fires one callback.
CallbackStep == pc = "running" /\ Len(fired') = Len(fired) + 1

AppendsOne(old, new, test) ==
    /\ Len(new) = Len(old) + 1
    /\ SubSeq(new, 1, Len(old)) = old
    /\ new[Len(new)].test = test

C27_CallbackFrame ==
    [][CallbackStep =>
          LET f == fired'[Len(fired')]
              ex == test_result.vedro_unittest_exceptions
              ef == test_result.vedro_unittest_expected_failures
              us == test_result.vedro_unittest_unexpected_successes
              ex2 == test_result'.vedro_unittest_exceptions
              ef2 == test_result'.vedro_unittest_expected_failures
              us2 == test_result'.vedro_unittest_unexpected_successes
          IN  /\ test_result'.shouldStop = test_result.shouldStop
              /\ IF \/ f.cb \in {"addError", "addFailure", "addSkip"}
                    \/ f.cb = "addSubTest" /\ f.behaviour # "pass"
                 THEN /\ AppendsOne(ex, ex2, f.test)
                      /\ f.cb = "addSkip" => ex2[Len(ex2)].exc.type = "SkipTest"
                      /\ ef2 = ef /\ us2 = us
                 ELSE IF f.cb = "addExpectedFailure"
                 THEN AppendsOne(ef, ef2, f.test) /\ ex2 = ex /\ us2 = us
                 ELSE IF f.cb = "addUnexpectedSuccess"
                 THEN /\ AppendsOne(us, us2, f.test)
                      /\ us2[Len(us2)].exc.type = "UnexpectedSuccessError"
                      /\ ex2 = ex /\ ef2 = ef
                 ELSE test_result' = test_result]_vars

\* A test whose first subtest iteration fails, whose second passes and whose
\* method then fails: the failure is appended after the subtest's entry, and
\* the passing iteration has changed nothing.
C27_Witness ==
    /\ pc = "running"
    /\ Len(fired) = 3
    /\ fired[1].cb = "addSubTest" /\ fired[1].behaviour = "fail"
    /\ fired[2].cb = "addSubTest" /\ fired[2].behaviour = "pass"
    /\ fired[3].cb = "addFailure"
    /\ Len(Exceptions) = 2
    /\ Exceptions[1].test = fired[1].test
    /\ Exceptions[2].test = fired[3].test

(***************************************************************************)
(* C28: expected-failure and unexpected-success metadata is sticky: once a *)
(* body invocation has attached either attribute to a scenario type, no    *)
(* later operation removes or resets it, so that every later ScenarioPassed*)
(* (respectively ScenarioFailed) event for the scenario still gets the     *)
(* note, even when the latest invocation recorded no expected failure      *)
(* (respectively failed for a different reason).                           *)
(***************************************************************************)
C28_MetadataSticky ==
    [][pc # "unloaded" =>
          /\ \A s \in 1..Len(scenarios) :
                /\ scenarios[s].expected_failure # Nil =>
                       scenarios'[s].expected_failure # Nil
                /\ scenarios[s].unexpected_success # Nil =>
                       scenarios'[s].unexpected_success # Nil
          /\ EventStep =>
                /\ (outcome = <<Nil>> /\ scenarios[cur].expected_failure # Nil) =>
                       extra_details' =
                           <<[note |-> "Expected Failure",
                              repr |-> Repr(scenarios[cur].expected_failure[1])]>>
                /\ (outcome # <<Nil>> /\ scenarios[cur].unexpected_success # Nil) =>
                       extra_details' =
                           <<[note |-> "Unexpected Success", repr |-> << >>]>>]_vars

\* A scenario that once passed unexpectedly and now fails because its test
\* calls skipTest: the failed run still gets the note.
C28_Witness ==
    /\ pc = "reported"
    /\ report = "failed"
    /\ UnexpectedSuccesses = << >>
    /\ Len(Exceptions) = 1
    /\ Exceptions[1].exc.type = "SkipTest"
    /\ scenarios[cur].unexpected_success # Nil
    /\ extra_details = <<[note |-> "Unexpected Success", repr |-> << >>]>>

(***************************************************************************)
(* C26: for the test methods of one class with per-method setUp/tearDown   *)
(* and no class- or module-level hooks, running the per-method scenarios   *)
(* in returned order produces the side-effect order setup, method1,        *)
(* teardown, setup, method2, teardown, ...: the scenarios are returned in  *)
(* the order of their methods, the host runs one body at a time, and every *)
(* body that has ended has called exactly setUp, its own method and        *)
(* tearDown, in this order, each once, and no other unit's.                *)
(***************************************************************************)
\* The position of a method name in the order of the loader (sorted names).
MethodIndex(name) == CHOOSE k \in 1..Len(MethodNames) : MethodNames[k] = name

C26_SetUpMethodTearDown ==
    /\ \A s, t \in 1..Len(scenarios) :
          (/\ s < t
           /\ scenarios[s].granularity = "per-method"
           /\ scenarios[t].granularity = "per-method"
           /\ scenarios[s].test.tests[1].cls = scenarios[t].test.tests[1].cls) =>
              MethodIndex(scenarios[s].test.tests[1].method)
                  < MethodIndex(scenarios[t].test.tests[1].method)
    /\ (BodyEnded /\ scenarios[cur].granularity = "per-method") =>
          LET test == scenarios[cur].test.tests[1]
          IN  effects = <<[call |-> "setUp", test |-> test],
                          [call |-> "test", test |-> test],
                          [call |-> "tearDown", test |-> test]>>
    /\ pc \in {"idle", "unloaded"} => effects = << >>

\* The second of two per-method scenarios of a class, passed: setUp, the
\* second method and tearDown have been called.
C26_Witness ==
    /\ pc = "reported"
    /\ report = "passed"
    /\ Len(scenarios) = 2
    /\ cur = 2
    /\ scenarios[1].granularity = "per-method"
    /\ scenarios[2].granularity = "per-method"
    /\ effects = <<[call |-> "setUp", test |-> scenarios[2].test.tests[1]],
                    [call |-> "test", test |-> scenarios[2].test.tests[1]],
                    [call |-> "tearDown", test |-> scenarios[2].test.tests[1]]>>

(***************************************************************************)
(* C24 as stated: the scenario names produced for one module are pairwise  *)
(* distinct: no two scenarios returned by one load call share a name,      *)
(* whatever the class names and the test method names are.                 *)
(***************************************************************************)
C24_Original ==
    Loaded =>
        \A j, k \in 1..Len(scenarios) :
            j # k => scenarios[j].name # scenarios[k].name

(***************************************************************************)
(* C24, what the code gives: the name is "Scenario_UnitTestSuite" for the  *)
(* per-module scenario, "Scenario_<ClassName>" for a per-class scenario    *)
(* and "Scenario_<ClassName>_<MethodName>" for a per-method scenario, and  *)
(* two scenarios of one load call that wrap units of the same class have   *)
(* different names.  Scenarios of different classes can share a name.      *)
(***************************************************************************)
\* The class of the first unit a scenario wraps.
ClassOfScenario(k) == scenarios[k].test.tests[1].cls

C24_DistinctWithinClass ==
    Loaded =>
        /\ \A k \in 1..Len(scenarios) :
              scenarios[k].name =
                  CASE scenarios[k].granularity = "per-module" ->
                          "Scenario_UnitTestSuite"
                    [] scenarios[k].granularity = "per-class" ->
                          "Scenario_" \o ClassNames[ClassOfScenario(k)]
                    [] OTHER ->
                          "Scenario_" \o ClassNames[ClassOfScenario(k)] \o "_"
                              \o scenarios[k].test.tests[1].method
        /\ \A j, k \in 1..Len(scenarios) :
              (j # k /\ scenarios[j].granularity # "per-module"
                     /\ ClassOfScenario(j) = ClassOfScenario(k))
                  => scenarios[j].name # scenarios[k].name

\* Class A without class hooks and class A_test_a with setUpClass: the
\* per-method scenario of A.test_a and the per-class scenario of A_test_a
\* are both named Scenario_A_test_a.
C24_Witness ==
    /\ Loaded
    /\ \E j, k \in 1..Len(scenarios) :
          /\ j # k
          /\ scenarios[j].granularity = "per-method"
          /\ scenarios[k].granularity = "per-class"
          /\ scenarios[j].name = "Scenario_A_test_a"
          /\ scenarios[k].name = "Scenario_A_test_a"
    /\ \E j, k \in 1..Len(scenarios) :
          /\ j # k
          /\ scenarios[j].granularity = "per-method"
          /\ scenarios[k].granularity = "per-method"
          /\ ClassOfScenario(j) = ClassOfScenario(k)
          /\ scenarios[j].name # scenarios[k].name

(***************************************************************************)
(* C29: no lifecycle hook is dropped by the choice of granularity.  Every  *)
(* returned scenario that wraps a bare test unit belongs to a module       *)
(* without setUpModule/tearDownModule and to a class without an overridden *)
(* setUpClass/tearDownClass; every unit whose class or module has such a   *)
(* hook is wrapped only inside a suite-level scenario; and each discovered *)
(* unit is covered by exactly one returned scenario, once.                 *)
(***************************************************************************)
\* The (scenario, position) pairs at which unit t is wrapped.
Coverings(t) ==
    {c \in UNION {{<<k, p>> : p \in 1..Len(scenarios[k].test.tests)}
                        : k \in 1..Len(scenarios)} :
        scenarios[c[1]].test.tests[c[2]] = t}

C29_NoHookDropped ==
    Loaded =>
        /\ \A k \in 1..Len(scenarios) :
              scenarios[k].test.isCase =>
                  /\ ~DefinesModuleHook
                  /\ ~OverridesClassHook(scenarios[k].test.tests[1].cls)
        /\ \A t \in AllTests :
              (DefinesModuleHook \/ OverridesClassHook(t.cls)) =>
                  \A c \in Coverings(t) : ~scenarios[c[1]].test.isCase
        /\ \A t \in AllTests : Cardinality(Coverings(t)) = 1
        /\ \A k \in 1..Len(scenarios) : TestSet(scenarios[k]) \subseteq AllTests

\* No module hook; class A has no class hook and is split per method, the
\* second class defines tearDownClass only and is kept as one suite.
C29_Witness ==
    /\ Loaded
    /\ ~DefinesModuleHook
    /\ Len(module.classes) = 2
    /\ ~OverridesClassHook(1)
    /\ module.classes[2].tearDownClass /\ ~module.classes[2].setUpClass
    /\ \E k \in 1..Len(scenarios) :
          scenarios[k].test.isCase /\ scenarios[k].test.tests[1].cls = 1
    /\ \E k \in 1..Len(scenarios) :
          /\ ~scenarios[k].test.isCase
          /\ scenarios[k].test.tests[1].cls = 2
          /\ Len(scenarios[k].test.tests) = 2

(***************************************************************************)
(* Vocabulary of the traceback properties.                                 *)
(***************************************************************************)
\* An ExceptionRaised event the handler returned from normally.
Handled == event.fired # Nil /\ event.error = Nil

\* The traceback without the frames of the engine and of this package, the
\* other frames kept in order.
IsFilteredVersion(after, before) ==
    /\ \A k \in 1..Len(after) : after[k] \notin InternalModules
    /\ after = SelectSeq(before, LAMBDA frame : frame \in {"vedro", "user"})

\* The traceback of an exception is replaced with its filtered version (an
\* exception without a traceback keeps none).
TracebackFiltered(after, before) ==
    /\ after.type = before.type
    /\ IF before.tb = Nil THEN after.tb = Nil
       ELSE after.tb # Nil /\ IsFilteredVersion(after.tb[1], before.tb[1])

\* Every leaf of before, reached through aggregates of any kind, has its
\* traceback replaced in after.
RECURSIVE EveryLeafFiltered(_, _)
EveryLeafFiltered(after, before) ==
    IF before.exceptions # << >>
    THEN /\ Len(after.exceptions) = Len(before.exceptions)
         /\ \A k \in 1..Len(before.exceptions) :
               EveryLeafFiltered(after.exceptions[k], before.exceptions[k])
    ELSE TracebackFiltered(after, before)

(***************************************************************************)
(* C21 as stated: on an ExceptionRaised event with traceback filtering     *)
(* enabled, the plugin replaces the event's traceback and the traceback of *)
(* every leaf exception of the raised exception, recursing through         *)
(* arbitrarily nested aggregate exceptions, with its filtered version;     *)
(* with show_internal_calls true the event and every exception are left    *)
(* unchanged.                                                              *)
(***************************************************************************)
C21_Original ==
    Handled =>
        IF show_internal_calls THEN event.handled = event.fired
        ELSE /\ IsFilteredVersion(event.handled[1].traceback,
                                  event.fired[1].traceback)
             /\ EveryLeafFiltered(event.handled[1].value, event.fired[1].value)

(***************************************************************************)
(* C21, what the code gives: with filtering enabled the event's traceback  *)
(* is replaced with its filtered version, the handler recurses through     *)
(* instances of ExceptionGroup only, leaving such a group's own traceback  *)
(* alone, and replaces the traceback of every other exception it reaches;  *)
(* a BaseExceptionGroup is treated as a leaf, so its own traceback is      *)
(* replaced and its members are left unchanged.  With show_internal_calls  *)
(* true the event and every exception are left unchanged.                  *)
(***************************************************************************)
RECURSIVE FilteredThroughExceptionGroups(_, _)
FilteredThroughExceptionGroups(after, before) ==
    IF before.type = "ExceptionGroup"
    THEN /\ after.type = before.type
         /\ after.tb = before.tb
         /\ Len(after.exceptions) = Len(before.exceptions)
         /\ \A k \in 1..Len(before.exceptions) :
               FilteredThroughExceptionGroups(after.exceptions[k],
                                              before.exceptions[k])
    ELSE /\ TracebackFiltered(after, before)
         /\ after.exceptions = before.exceptions

C21_LeavesOfExceptionGroups ==
    Handled =>
        IF show_internal_calls THEN event.handled = event.fired
        ELSE /\ IsFilteredVersion(event.handled[1].traceback,
                                  event.fired[1].traceback)
             /\ FilteredThroughExceptionGroups(event.handled[1].value,
                                               event.fired[1].value)

\* An ExceptionGroup that holds a leaf and an ExceptionGroup of two leaves,
\* fired with filtering enabled: the traceback of the innermost leaf lost
\* its engine frames.
C21_Witness ==
    /\ Handled
    /\ ~show_internal_calls
    /\ event.fired[1].value.type = "ExceptionGroup"
    /\ Len(event.fired[1].value.exceptions) = 2
    /\ event.fired[1].value.exceptions[2].type = "ExceptionGroup"
    /\ Len(event.fired[1].value.exceptions[2].exceptions) = 2
    /\ event.fired[1].value.exceptions[2].exceptions[2].tb
          = Some(<<"unittest", "user", "unittest">>)
    /\ event.handled[1].value.exceptions[2].exceptions[2].tb = Some(<<"user">>)
    /\ event.fired[1].traceback = <<"vedro", "vedro_unittest", "unittest", "user">>
    /\ event.handled[1].traceback = <<"vedro", "user">>

(***************************************************************************)
(* C30: with traceback filtering enabled, an ExceptionRaised event is      *)
(* handled successfully only after a ConfigLoaded event; if it arrives     *)
(* first, the handler fails an assertion before touching the event and     *)
(* leaves all tracebacks unchanged.  The traceback filter is built lazily, *)
(* by the first ExceptionRaised handled so, at most once per plugin        *)
(* instance, and later ConfigLoaded events do not replace it.              *)
(***************************************************************************)
ExceptionRaisedStep == exc_raised' = exc_raised + 1

C30_LazyFilterAfterConfig ==
    [][/\ (ExceptionRaisedStep /\ ~show_internal_calls /\ config_loaded = 0) =>
              /\ event'.error = Some("AssertionError")
              /\ event'.handled = event'.fired
              /\ tb_filter' = Nil
       /\ (ExceptionRaisedStep /\ ~show_internal_calls /\ config_loaded > 0) =>
              /\ event'.error = Nil
              /\ tb_filter' # Nil
       /\ (tb_filter = Nil /\ tb_filter' # Nil) =>
              /\ ExceptionRaisedStep
              /\ ~show_internal_calls
              /\ tb_filter'[1].instance = exc_raised'
       /\ tb_filter # Nil => tb_filter' = tb_filter
       /\ show_internal_calls => tb_filter' = Nil]_vars

\* The first event came before any ConfigLoaded and failed the assertion;
\* the second built the filter; a ConfigLoaded and a third event later the
\* filter is still the one the second event built.
C30_Witness ==
    /\ ~show_internal_calls
    /\ exc_raised = 3
    /\ config_loaded >= 2
    /\ tb_filter # Nil
    /\ tb_filter[1].instance = 2
    /\ Handled

====
